---------------------------- MODULE Spec2Model ----------------------------
(***************************************************************************)
(* A model of the VPN detection client of realdivinetech/vpn-detection-app: *)
(* the Aggregation Engine (DetectionEngine.calculateOverallResult), the    *)
(* evidence orchestration (DetectionEngine.runFullDetection with its five  *)
(* producers) and the hand-over of the verdict to the logging sink; then   *)
(* the components on their own: LocationMismatch.checkLocationMismatch,    *)
(* the callbacks of WebRTCLeak.detectLeak, BehaviorAnalysis, and the       *)
(* server's BotDetector.analyzeBehavior and IpClassifier.classifyIp.       *)
(*                                                                         *)
(* JavaScript values.  A flag field holds one of the strings "true",       *)
(* "false" (the two booleans), "undefined", "null", or any other string    *)
(* (which stands for itself, e.g. "Unknown").  A numeric field is a record *)
(* [t, n]: t is the result of typeof ("number", "string", "undefined")     *)
(* and n the number when t = "number".  A timezone or a country text is    *)
(* the sequence of its tokens: "America/New_York" is <<"America",          *)
(* "New_York">>, "United States US" is <<"United", "States", "US">>,       *)
(* "Unknown" is <<"Unknown">> and undefined is <<>>.  Scores are kept in   *)
(* tenths of a point, so that riskScore * 0.5 and Math.round are exact.    *)
(***************************************************************************)
EXTENDS Integers, Sequences, FiniteSets, TLC

VARIABLES
    results,      \* the DetectionResults bundle handed to calculateOverallResult
    verdict,      \* the DetectionResult it computed
    pc,           \* where runFullDetection stands
    svc,          \* the four analyzeWith* promises of runIpAnalysis
    ipPhase,      \* where runIpAnalysis stands
    merged,       \* runIpAnalysis' merged record
    fallback,     \* the last-resort api.ipify.org lookup of runIpAnalysis
    webrtc,       \* the promise of webrtcLeak.detectLeak()
    fingerprint,  \* the promise of fingerprinting.generateFingerprint()
    location,     \* the promise of locationMismatch.checkLocationMismatch()
    bot,          \* the promise of runBotDetection()
    logState,     \* the apiClient.logDetection call
    outcome,      \* what runFullDetection settled with
    locationCheck, \* one call of LocationMismatch.checkLocationMismatch and its lookups
    leak,          \* one call of WebRTCLeak.detectLeak: its peer connections and counters
    botDetector,   \* the server's BotDetector: requestTracker and the clock
    ipClassifier,  \* the server's IpClassifier: hostingRanges and the last classification
    behavior       \* a BehaviorAnalysis instance: buffers, isTracking, eventListeners

vars == <<results, verdict, pc, svc, ipPhase, merged, fallback, webrtc,
          fingerprint, location, bot, logState, outcome,
          locationCheck, leak, botDetector, ipClassifier, behavior>>

\* the state of the detection run, and the state of the components that are
\* exercised on their own
engineVars == <<results, verdict, pc, svc, ipPhase, merged, fallback, webrtc,
                fingerprint, location, bot, logState, outcome>>
componentVars == <<locationCheck, leak, botDetector, ipClassifier, behavior>>

-----------------------------------------------------------------------------
(* JavaScript values *)

Truthy(v) == v \notin {"false", "undefined", "null", ""}

Num(k) == [t |-> "number", n |-> k]
UnknownNum == [t |-> "string", n |-> 0]
UndefinedNum == [t |-> "undefined", n |-> 0]

\* typeof x === 'number' ? x : 0
NumberOrZero(x) == IF x.t = "number" THEN x.n ELSE 0

UnknownText == <<"Unknown">>
UndefinedText == <<>>

Min(a, b) == IF a <= b THEN a ELSE b

\* Math.round of a value given in tenths: the nearest integer, a half rounding up
MathRound(tenths) == (tenths + 5) \div 10

-----------------------------------------------------------------------------
(* The static reference tables *)

countryContinentMapping ==
    ("AF" :> "Asia") @@ ("AX" :> "Europe") @@ ("AL" :> "Europe") @@ ("DZ" :> "Africa")
    @@ ("AS" :> "Oceania") @@ ("AD" :> "Europe") @@ ("AO" :> "Africa") @@ ("AI" :> "North America")
    @@ ("AQ" :> "Antarctica") @@ ("AG" :> "North America") @@ ("AR" :> "South America") @@ ("AM" :> "Asia")
    @@ ("AW" :> "North America") @@ ("AU" :> "Oceania") @@ ("AT" :> "Europe") @@ ("AZ" :> "Asia")
    @@ ("BS" :> "North America") @@ ("BH" :> "Asia") @@ ("BD" :> "Asia") @@ ("BB" :> "North America")
    @@ ("BY" :> "Europe") @@ ("BE" :> "Europe") @@ ("BZ" :> "North America") @@ ("BJ" :> "Africa")
    @@ ("BM" :> "North America") @@ ("BT" :> "Asia") @@ ("BO" :> "South America") @@ ("BQ" :> "North America")
    @@ ("BA" :> "Europe") @@ ("BW" :> "Africa") @@ ("BV" :> "Antarctica") @@ ("BR" :> "South America")
    @@ ("IO" :> "Asia") @@ ("BN" :> "Asia") @@ ("BG" :> "Europe") @@ ("BF" :> "Africa")
    @@ ("BI" :> "Africa") @@ ("CV" :> "Africa") @@ ("KH" :> "Asia") @@ ("CM" :> "Africa")
    @@ ("CA" :> "North America") @@ ("KY" :> "North America") @@ ("CF" :> "Africa") @@ ("TD" :> "Africa")
    @@ ("CL" :> "South America") @@ ("CN" :> "Asia") @@ ("CX" :> "Asia") @@ ("CC" :> "Asia")
    @@ ("CO" :> "South America") @@ ("KM" :> "Africa") @@ ("CG" :> "Africa") @@ ("CD" :> "Africa")
    @@ ("CK" :> "Oceania") @@ ("CR" :> "North America") @@ ("CI" :> "Africa") @@ ("HR" :> "Europe")
    @@ ("CU" :> "North America") @@ ("CW" :> "North America") @@ ("CY" :> "Asia") @@ ("CZ" :> "Europe")
    @@ ("DK" :> "Europe") @@ ("DJ" :> "Africa") @@ ("DM" :> "North America") @@ ("DO" :> "North America")
    @@ ("EC" :> "South America") @@ ("EG" :> "Africa") @@ ("SV" :> "North America") @@ ("GQ" :> "Africa")
    @@ ("ER" :> "Africa") @@ ("EE" :> "Europe") @@ ("SZ" :> "Africa") @@ ("ET" :> "Africa")
    @@ ("FK" :> "South America") @@ ("FO" :> "Europe") @@ ("FJ" :> "Oceania") @@ ("FI" :> "Europe")
    @@ ("FR" :> "Europe") @@ ("GF" :> "South America") @@ ("PF" :> "Oceania") @@ ("TF" :> "Antarctica")
    @@ ("GA" :> "Africa") @@ ("GM" :> "Africa") @@ ("GE" :> "Asia") @@ ("DE" :> "Europe")
    @@ ("GH" :> "Africa") @@ ("GI" :> "Europe") @@ ("GR" :> "Europe") @@ ("GL" :> "North America")
    @@ ("GD" :> "North America") @@ ("GP" :> "North America") @@ ("GU" :> "Oceania") @@ ("GT" :> "North America")
    @@ ("GG" :> "Europe") @@ ("GN" :> "Africa") @@ ("GW" :> "Africa") @@ ("GY" :> "South America")
    @@ ("HT" :> "North America") @@ ("HM" :> "Antarctica") @@ ("VA" :> "Europe") @@ ("HN" :> "North America")
    @@ ("HK" :> "Asia") @@ ("HU" :> "Europe") @@ ("IS" :> "Europe") @@ ("IN" :> "Asia")
    @@ ("ID" :> "Asia") @@ ("IR" :> "Asia") @@ ("IQ" :> "Asia") @@ ("IE" :> "Europe")
    @@ ("IM" :> "Europe") @@ ("IL" :> "Asia") @@ ("IT" :> "Europe") @@ ("JM" :> "North America")
    @@ ("JP" :> "Asia") @@ ("JE" :> "Europe") @@ ("JO" :> "Asia") @@ ("KZ" :> "Asia")
    @@ ("KE" :> "Africa") @@ ("KI" :> "Oceania") @@ ("KP" :> "Asia") @@ ("KR" :> "Asia")
    @@ ("KW" :> "Asia") @@ ("KG" :> "Asia") @@ ("LA" :> "Asia") @@ ("LV" :> "Europe")
    @@ ("LB" :> "Asia") @@ ("LS" :> "Africa") @@ ("LR" :> "Africa") @@ ("LY" :> "Africa")
    @@ ("LI" :> "Europe") @@ ("LT" :> "Europe") @@ ("LU" :> "Europe") @@ ("MO" :> "Asia")
    @@ ("MG" :> "Africa") @@ ("MW" :> "Africa") @@ ("MY" :> "Asia") @@ ("MV" :> "Asia")
    @@ ("ML" :> "Africa") @@ ("MT" :> "Europe") @@ ("MH" :> "Oceania") @@ ("MQ" :> "North America")
    @@ ("MR" :> "Africa") @@ ("MU" :> "Africa") @@ ("YT" :> "Africa") @@ ("MX" :> "North America")
    @@ ("FM" :> "Oceania") @@ ("MD" :> "Europe") @@ ("MC" :> "Europe") @@ ("MN" :> "Asia")
    @@ ("ME" :> "Europe") @@ ("MS" :> "North America") @@ ("MA" :> "Africa") @@ ("MZ" :> "Africa")
    @@ ("MM" :> "Asia") @@ ("NA" :> "Africa") @@ ("NR" :> "Oceania") @@ ("NP" :> "Asia")
    @@ ("NL" :> "Europe") @@ ("NC" :> "Oceania") @@ ("NZ" :> "Oceania") @@ ("NI" :> "North America")
    @@ ("NE" :> "Africa") @@ ("NG" :> "Africa") @@ ("NU" :> "Oceania") @@ ("NF" :> "Oceania")
    @@ ("MK" :> "Europe") @@ ("MP" :> "Oceania") @@ ("NO" :> "Europe") @@ ("OM" :> "Asia")
    @@ ("PK" :> "Asia") @@ ("PW" :> "Oceania") @@ ("PS" :> "Asia") @@ ("PA" :> "North America")
    @@ ("PG" :> "Oceania") @@ ("PY" :> "South America") @@ ("PE" :> "South America") @@ ("PH" :> "Asia")
    @@ ("PN" :> "Oceania") @@ ("PL" :> "Europe") @@ ("PT" :> "Europe") @@ ("PR" :> "North America")
    @@ ("QA" :> "Asia") @@ ("RE" :> "Africa") @@ ("RO" :> "Europe") @@ ("RU" :> "Europe")
    @@ ("RW" :> "Africa") @@ ("BL" :> "North America") @@ ("SH" :> "Africa") @@ ("KN" :> "North America")
    @@ ("LC" :> "North America") @@ ("MF" :> "North America") @@ ("PM" :> "North America") @@ ("VC" :> "North America")
    @@ ("WS" :> "Oceania") @@ ("SM" :> "Europe") @@ ("ST" :> "Africa") @@ ("SA" :> "Asia")
    @@ ("SN" :> "Africa") @@ ("RS" :> "Europe") @@ ("SC" :> "Africa") @@ ("SL" :> "Africa")
    @@ ("SG" :> "Asia") @@ ("SX" :> "North America") @@ ("SK" :> "Europe") @@ ("SI" :> "Europe")
    @@ ("SB" :> "Oceania") @@ ("SO" :> "Africa") @@ ("ZA" :> "Africa") @@ ("GS" :> "Antarctica")
    @@ ("SS" :> "Africa") @@ ("ES" :> "Europe") @@ ("LK" :> "Asia") @@ ("SD" :> "Africa")
    @@ ("SR" :> "South America") @@ ("SJ" :> "Europe") @@ ("SE" :> "Europe") @@ ("CH" :> "Europe")
    @@ ("SY" :> "Asia") @@ ("TW" :> "Asia") @@ ("TJ" :> "Asia") @@ ("TZ" :> "Africa")
    @@ ("TH" :> "Asia") @@ ("TL" :> "Asia") @@ ("TG" :> "Africa") @@ ("TK" :> "Oceania")
    @@ ("TO" :> "Oceania") @@ ("TT" :> "North America") @@ ("TN" :> "Africa") @@ ("TR" :> "Europe")
    @@ ("TM" :> "Asia") @@ ("TC" :> "North America") @@ ("TV" :> "Oceania") @@ ("UG" :> "Africa")
    @@ ("UA" :> "Europe") @@ ("AE" :> "Asia") @@ ("GB" :> "Europe") @@ ("US" :> "North America")
    @@ ("UM" :> "Oceania") @@ ("UY" :> "South America") @@ ("UZ" :> "Asia") @@ ("VU" :> "Oceania")
    @@ ("VE" :> "South America") @@ ("VN" :> "Asia") @@ ("VG" :> "North America") @@ ("VI" :> "North America")
    @@ ("WF" :> "Oceania") @@ ("EH" :> "Africa") @@ ("YE" :> "Asia") @@ ("ZM" :> "Africa")
    @@ ("ZW" :> "Africa")

countryTimezoneMap ==
    ("AF" :> <<"Asia", "Kabul">>) @@ ("AL" :> <<"Europe", "Tirane">>) @@ ("DZ" :> <<"Africa", "Algiers">>) @@ ("AS" :> <<"Pacific", "Pago_Pago">>)
    @@ ("AD" :> <<"Europe", "Andorra">>) @@ ("AO" :> <<"Africa", "Luanda">>) @@ ("AI" :> <<"America", "Anguilla">>) @@ ("AQ" :> <<"Antarctica", "Palmer">>)
    @@ ("AG" :> <<"America", "Antigua">>) @@ ("AR" :> <<"America", "Argentina", "Buenos_Aires">>) @@ ("AM" :> <<"Asia", "Yerevan">>) @@ ("AW" :> <<"America", "Aruba">>)
    @@ ("AU" :> <<"Australia", "Sydney">>) @@ ("AT" :> <<"Europe", "Vienna">>) @@ ("AZ" :> <<"Asia", "Baku">>) @@ ("BS" :> <<"America", "Nassau">>)
    @@ ("BH" :> <<"Asia", "Bahrain">>) @@ ("BD" :> <<"Asia", "Dhaka">>) @@ ("BB" :> <<"America", "Barbados">>) @@ ("BY" :> <<"Europe", "Minsk">>)
    @@ ("BE" :> <<"Europe", "Brussels">>) @@ ("BZ" :> <<"America", "Belize">>) @@ ("BJ" :> <<"Africa", "Porto-Novo">>) @@ ("BM" :> <<"Atlantic", "Bermuda">>)
    @@ ("BT" :> <<"Asia", "Thimphu">>) @@ ("BO" :> <<"America", "La_Paz">>) @@ ("BQ" :> <<"America", "Kralendijk">>) @@ ("BA" :> <<"Europe", "Sarajevo">>)
    @@ ("BW" :> <<"Africa", "Gaborone">>) @@ ("BV" :> <<"Antarctica", "Bouvet">>) @@ ("BR" :> <<"America", "Sao_Paulo">>) @@ ("IO" :> <<"Indian", "Chagos">>)
    @@ ("BN" :> <<"Asia", "Brunei">>) @@ ("BG" :> <<"Europe", "Sofia">>) @@ ("BF" :> <<"Africa", "Ouagadougou">>) @@ ("BI" :> <<"Africa", "Bujumbura">>)
    @@ ("KH" :> <<"Asia", "Phnom_Penh">>) @@ ("CM" :> <<"Africa", "Douala">>) @@ ("CA" :> <<"America", "Toronto">>) @@ ("CV" :> <<"Atlantic", "Cape_Verde">>)
    @@ ("KY" :> <<"America", "Cayman">>) @@ ("CF" :> <<"Africa", "Bangui">>) @@ ("TD" :> <<"Africa", "Ndjamena">>) @@ ("CL" :> <<"America", "Santiago">>)
    @@ ("CN" :> <<"Asia", "Shanghai">>) @@ ("CX" :> <<"Indian", "Christmas">>) @@ ("CC" :> <<"Indian", "Cocos">>) @@ ("CO" :> <<"America", "Bogota">>)
    @@ ("KM" :> <<"Indian", "Comoro">>) @@ ("CG" :> <<"Africa", "Brazzaville">>) @@ ("CD" :> <<"Africa", "Kinshasa">>) @@ ("CK" :> <<"Pacific", "Rarotonga">>)
    @@ ("CR" :> <<"America", "Costa_Rica">>) @@ ("CI" :> <<"Africa", "Abidjan">>) @@ ("HR" :> <<"Europe", "Zagreb">>) @@ ("CU" :> <<"America", "Havana">>)
    @@ ("CW" :> <<"America", "Curacao">>) @@ ("CY" :> <<"Asia", "Nicosia">>) @@ ("CZ" :> <<"Europe", "Prague">>) @@ ("DK" :> <<"Europe", "Copenhagen">>)
    @@ ("DJ" :> <<"Africa", "Djibouti">>) @@ ("DM" :> <<"America", "Dominica">>) @@ ("DO" :> <<"America", "Santo_Domingo">>) @@ ("EC" :> <<"America", "Guayaquil">>)
    @@ ("EG" :> <<"Africa", "Cairo">>) @@ ("SV" :> <<"America", "El_Salvador">>) @@ ("GQ" :> <<"Africa", "Malabo">>) @@ ("ER" :> <<"Africa", "Asmara">>)
    @@ ("EE" :> <<"Europe", "Tallinn">>) @@ ("SZ" :> <<"Africa", "Mbabane">>) @@ ("ET" :> <<"Africa", "Addis_Ababa">>) @@ ("FK" :> <<"Atlantic", "Stanley">>)
    @@ ("FO" :> <<"Atlantic", "Faroe">>) @@ ("FJ" :> <<"Pacific", "Fiji">>) @@ ("FI" :> <<"Europe", "Helsinki">>) @@ ("FR" :> <<"Europe", "Paris">>)
    @@ ("GF" :> <<"America", "Cayenne">>) @@ ("PF" :> <<"Pacific", "Tahiti">>) @@ ("TF" :> <<"Indian", "Kerguelen">>) @@ ("GA" :> <<"Africa", "Libreville">>)
    @@ ("GM" :> <<"Africa", "Banjul">>) @@ ("GE" :> <<"Asia", "Tbilisi">>) @@ ("DE" :> <<"Europe", "Berlin">>) @@ ("GH" :> <<"Africa", "Accra">>)
    @@ ("GI" :> <<"Europe", "Gibraltar">>) @@ ("GR" :> <<"Europe", "Athens">>) @@ ("GL" :> <<"America", "Godthab">>) @@ ("GD" :> <<"America", "Grenada">>)
    @@ ("GP" :> <<"America", "Guadeloupe">>) @@ ("GU" :> <<"Pacific", "Guam">>) @@ ("GT" :> <<"America", "Guatemala">>) @@ ("GG" :> <<"Europe", "Guernsey">>)
    @@ ("GN" :> <<"Africa", "Conakry">>) @@ ("GW" :> <<"Africa", "Bissau">>) @@ ("GY" :> <<"America", "Guyana">>) @@ ("HT" :> <<"America", "Port-au-Prince">>)
    @@ ("HM" :> <<"Antarctica", "McMurdo">>) @@ ("VA" :> <<"Europe", "Vatican">>) @@ ("HN" :> <<"America", "Tegucigalpa">>) @@ ("HK" :> <<"Asia", "Hong_Kong">>)
    @@ ("HU" :> <<"Europe", "Budapest">>) @@ ("IS" :> <<"Atlantic", "Reykjavik">>) @@ ("IN" :> <<"Asia", "Kolkata">>) @@ ("ID" :> <<"Asia", "Jakarta">>)
    @@ ("IR" :> <<"Asia", "Tehran">>) @@ ("IQ" :> <<"Asia", "Baghdad">>) @@ ("IE" :> <<"Europe", "Dublin">>) @@ ("IM" :> <<"Europe", "Isle_of_Man">>)
    @@ ("IL" :> <<"Asia", "Jerusalem">>) @@ ("IT" :> <<"Europe", "Rome">>) @@ ("JM" :> <<"America", "Jamaica">>) @@ ("JP" :> <<"Asia", "Tokyo">>)
    @@ ("JE" :> <<"Europe", "Jersey">>) @@ ("JO" :> <<"Asia", "Amman">>) @@ ("KZ" :> <<"Asia", "Almaty">>) @@ ("KE" :> <<"Africa", "Nairobi">>)
    @@ ("KI" :> <<"Pacific", "Tarawa">>) @@ ("KP" :> <<"Asia", "Pyongyang">>) @@ ("KR" :> <<"Asia", "Seoul">>) @@ ("KW" :> <<"Asia", "Kuwait">>)
    @@ ("KG" :> <<"Asia", "Bishkek">>) @@ ("LA" :> <<"Asia", "Vientiane">>) @@ ("LV" :> <<"Europe", "Riga">>) @@ ("LB" :> <<"Asia", "Beirut">>)
    @@ ("LS" :> <<"Africa", "Maseru">>) @@ ("LR" :> <<"Africa", "Monrovia">>) @@ ("LY" :> <<"Africa", "Tripoli">>) @@ ("LI" :> <<"Europe", "Vaduz">>)
    @@ ("LT" :> <<"Europe", "Vilnius">>) @@ ("LU" :> <<"Europe", "Luxembourg">>) @@ ("MO" :> <<"Asia", "Macau">>) @@ ("MG" :> <<"Indian", "Antananarivo">>)
    @@ ("MW" :> <<"Africa", "Blantyre">>) @@ ("MY" :> <<"Asia", "Kuala_Lumpur">>) @@ ("MV" :> <<"Indian", "Maldives">>) @@ ("ML" :> <<"Africa", "Bamako">>)
    @@ ("MT" :> <<"Europe", "Malta">>) @@ ("MH" :> <<"Pacific", "Majuro">>) @@ ("MQ" :> <<"America", "Martinique">>) @@ ("MR" :> <<"Africa", "Nouakchott">>)
    @@ ("MU" :> <<"Indian", "Mauritius">>) @@ ("YT" :> <<"Indian", "Mayotte">>) @@ ("MX" :> <<"America", "Mexico_City">>) @@ ("FM" :> <<"Pacific", "Chuuk">>)
    @@ ("MD" :> <<"Europe", "Chisinau">>) @@ ("MC" :> <<"Europe", "Monaco">>) @@ ("MN" :> <<"Asia", "Ulaanbaatar">>) @@ ("ME" :> <<"Europe", "Podgorica">>)
    @@ ("MS" :> <<"America", "Montserrat">>) @@ ("MA" :> <<"Africa", "Casablanca">>) @@ ("MZ" :> <<"Africa", "Maputo">>) @@ ("MM" :> <<"Asia", "Yangon">>)
    @@ ("NA" :> <<"Africa", "Windhoek">>) @@ ("NR" :> <<"Pacific", "Nauru">>) @@ ("NP" :> <<"Asia", "Kathmandu">>) @@ ("NL" :> <<"Europe", "Amsterdam">>)
    @@ ("NC" :> <<"Pacific", "Noumea">>) @@ ("NZ" :> <<"Pacific", "Auckland">>) @@ ("NI" :> <<"America", "Managua">>) @@ ("NE" :> <<"Africa", "Niamey">>)
    @@ ("NG" :> <<"Africa", "Lagos">>) @@ ("NU" :> <<"Pacific", "Niue">>) @@ ("NF" :> <<"Pacific", "Norfolk">>) @@ ("MK" :> <<"Europe", "Skopje">>)
    @@ ("MP" :> <<"Pacific", "Saipan">>) @@ ("NO" :> <<"Europe", "Oslo">>) @@ ("OM" :> <<"Asia", "Muscat">>) @@ ("PK" :> <<"Asia", "Karachi">>)
    @@ ("PW" :> <<"Pacific", "Palau">>) @@ ("PS" :> <<"Asia", "Gaza">>) @@ ("PA" :> <<"America", "Panama">>) @@ ("PG" :> <<"Pacific", "Port_Moresby">>)
    @@ ("PY" :> <<"America", "Asuncion">>) @@ ("PE" :> <<"America", "Lima">>) @@ ("PH" :> <<"Asia", "Manila">>) @@ ("PN" :> <<"Pacific", "Pitcairn">>)
    @@ ("PL" :> <<"Europe", "Warsaw">>) @@ ("PT" :> <<"Europe", "Lisbon">>) @@ ("PR" :> <<"America", "Puerto_Rico">>) @@ ("QA" :> <<"Asia", "Qatar">>)
    @@ ("RE" :> <<"Indian", "Reunion">>) @@ ("RO" :> <<"Europe", "Bucharest">>) @@ ("RU" :> <<"Europe", "Moscow">>) @@ ("RW" :> <<"Africa", "Kigali">>)
    @@ ("BL" :> <<"America", "St_Barthelemy">>) @@ ("SH" :> <<"Atlantic", "St_Helena">>) @@ ("KN" :> <<"America", "St_Kitts">>) @@ ("LC" :> <<"America", "St_Lucia">>)
    @@ ("MF" :> <<"America", "Marigot">>) @@ ("PM" :> <<"America", "Miquelon">>) @@ ("VC" :> <<"America", "St_Vincent">>) @@ ("WS" :> <<"Pacific", "Apia">>)
    @@ ("SM" :> <<"Europe", "San_Marino">>) @@ ("ST" :> <<"Africa", "Sao_Tome">>) @@ ("SA" :> <<"Asia", "Riyadh">>) @@ ("SN" :> <<"Africa", "Dakar">>)
    @@ ("RS" :> <<"Europe", "Belgrade">>) @@ ("SC" :> <<"Indian", "Mahe">>) @@ ("SL" :> <<"Africa", "Freetown">>) @@ ("SG" :> <<"Asia", "Singapore">>)
    @@ ("SX" :> <<"America", "Lower_Princes">>) @@ ("SK" :> <<"Europe", "Bratislava">>) @@ ("SI" :> <<"Europe", "Ljubljana">>) @@ ("SB" :> <<"Pacific", "Guadalcanal">>)
    @@ ("SO" :> <<"Africa", "Mogadishu">>) @@ ("ZA" :> <<"Africa", "Johannesburg">>) @@ ("GS" :> <<"Atlantic", "South_Georgia">>) @@ ("SS" :> <<"Africa", "Juba">>)
    @@ ("ES" :> <<"Europe", "Madrid">>) @@ ("LK" :> <<"Asia", "Colombo">>) @@ ("SD" :> <<"Africa", "Khartoum">>) @@ ("SR" :> <<"America", "Paramaribo">>)
    @@ ("SJ" :> <<"Arctic", "Longyearbyen">>) @@ ("SE" :> <<"Europe", "Stockholm">>) @@ ("CH" :> <<"Europe", "Zurich">>) @@ ("SY" :> <<"Asia", "Damascus">>)
    @@ ("TW" :> <<"Asia", "Taipei">>) @@ ("TJ" :> <<"Asia", "Dushanbe">>) @@ ("TZ" :> <<"Africa", "Dar_es_Salaam">>) @@ ("TH" :> <<"Asia", "Bangkok">>)
    @@ ("TL" :> <<"Asia", "Dili">>) @@ ("TG" :> <<"Africa", "Lome">>) @@ ("TK" :> <<"Pacific", "Fakaofo">>) @@ ("TO" :> <<"Pacific", "Tongatapu">>)
    @@ ("TT" :> <<"America", "Port_of_Spain">>) @@ ("TN" :> <<"Africa", "Tunis">>) @@ ("TR" :> <<"Europe", "Istanbul">>) @@ ("TM" :> <<"Asia", "Ashgabat">>)
    @@ ("TC" :> <<"America", "Grand_Turk">>) @@ ("TV" :> <<"Pacific", "Funafuti">>) @@ ("UG" :> <<"Africa", "Kampala">>) @@ ("UA" :> <<"Europe", "Kiev">>)
    @@ ("AE" :> <<"Asia", "Dubai">>) @@ ("GB" :> <<"Europe", "London">>) @@ ("US" :> <<"America", "New_York">>) @@ ("UM" :> <<"Pacific", "Johnston">>)
    @@ ("UY" :> <<"America", "Montevideo">>) @@ ("UZ" :> <<"Asia", "Tashkent">>) @@ ("VU" :> <<"Pacific", "Efate">>) @@ ("VE" :> <<"America", "Caracas">>)
    @@ ("VN" :> <<"Asia", "Ho_Chi_Minh">>) @@ ("VG" :> <<"America", "Tortola">>) @@ ("VI" :> <<"America", "St_Thomas">>) @@ ("WF" :> <<"Pacific", "Wallis">>)
    @@ ("EH" :> <<"Africa", "El_Aaiun">>) @@ ("YE" :> <<"Asia", "Aden">>) @@ ("ZM" :> <<"Africa", "Lusaka">>) @@ ("ZW" :> <<"Africa", "Harare">>)

\* the strings of exactly two upper-case letters that can occur in a country text
UpperTwo == DOMAIN countryContinentMapping \cup {"UK", "XX", "DR"}

\* String.prototype.toUpperCase on the two-character strings of the model
toUpperCase(s) ==
    CASE s = "us" -> "US"
      [] s = "de" -> "DE"
      [] OTHER -> s

timezoneToContinent(timezone) ==
    IF timezone = <<>> THEN "null"
    ELSE CASE timezone[1] = "Africa" -> "Africa"
           [] timezone[1] = "America" -> "North America"
           [] timezone[1] = "Europe" -> "Europe"
           [] timezone[1] = "Asia" -> "Asia"
           [] timezone[1] \in {"Australia", "Pacific"} -> "Oceania"
           [] timezone[1] = "Antarctica" -> "Antarctica"
           [] OTHER -> "null"

countryToContinent(countryCode) ==
    IF toUpperCase(countryCode) \in DOMAIN countryContinentMapping
    THEN countryContinentMapping[toUpperCase(countryCode)]
    ELSE "null"

getTimezoneFromCountryCode(countryCode) ==
    IF toUpperCase(countryCode) \in DOMAIN countryTimezoneMap
    THEN countryTimezoneMap[toUpperCase(countryCode)]
    ELSE UnknownText

\* countryString.match(/\b([A-Z]{2})\b/): the first token of two upper-case
\* letters; otherwise the whole text when it is two characters long; else ''
RECURSIVE FirstUpperTwo(_, _)
FirstUpperTwo(country, i) ==
    IF i > Len(country) THEN ""
    ELSE IF country[i] \in UpperTwo THEN country[i]
    ELSE FirstUpperTwo(country, i + 1)

extractCountryCode(country) ==
    IF country = <<>> THEN ""
    ELSE IF FirstUpperTwo(country, 1) # "" THEN FirstUpperTwo(country, 1)
    ELSE IF Len(country) = 1 /\ country[1] \in {"us", "de"} THEN country[1]
    ELSE ""

-----------------------------------------------------------------------------
(* DetectionEngine.calculateOverallResult *)

ipFlagKeys == <<"isDatacenter", "isHosting", "isTor", "vpnDetected", "blacklisted">>

scoringConfig ==
    [isDatacenter |-> [weight |-> 40, label |-> "Datacenter IP", risk |-> "IP hosted in datacenter"],
     isHosting |-> [weight |-> 35, label |-> "Hosting Provider", risk |-> "Hosting provider IP"],
     isTor |-> [weight |-> 50, label |-> "Tor Exit Node", risk |-> "Tor network detected"],
     vpnDetected |-> [weight |-> 60, label |-> "VPN Server Detected",
                      risk |-> "IP identified as VPN server by WhatIsMyIpAddress"],
     blacklisted |-> [weight |-> 40, label |-> "Blacklisted IP",
                      risk |-> "IP listed on blacklist by WhatIsMyIpAddress"],
     webrtcLeak |-> [weight |-> 10, label |-> "WebRTC Leak", risk |-> "Local IP leak detected"],
     locationMismatch |-> [weight |-> 50, label |-> "Location Mismatch",
                           risk |-> "Location mismatch detected"],
     botDetection |-> [weight |-> 45, label |-> "Bot/Automation", risk |-> "Automated browser detected"]]

timezoneMismatchConfig ==
    [weight |-> 50, label |-> "Fingerprint Timezone Mismatch",
     risk |-> "Mismatch between browser fingerprint timezone and IP location timezone"]

continentMismatchConfig ==
    [weight |-> 50, label |-> "Fingerprint Continent Mismatch",
     risk |-> "Mismatch between browser fingerprint continent and IP location continent"]

spoofedConfig ==
    [weight |-> 10, label |-> "Fingerprint Spoofed",
     risk |-> "Browser fingerprint data appears spoofed or inconsistent"]

\* the running totals: the score in tenths, the labels, the risk factors
EmptyAcc == [score |-> 0, types |-> <<>>, risks |-> <<>>]

\* the update without riskFactors.push(risk), to compare Push against
PushLabelOnly(acc, weight, label, risk) ==
    [score |-> acc.score + 10 * weight,
     types |-> Append(acc.types, label),
     risks |-> acc.risks]

\* confidenceScore += weight; detectedTypes.push(label); riskFactors.push(risk)
Push(acc, weight, label, risk) ==
    [score |-> acc.score + 10 * weight,
     types |-> Append(acc.types, label),
     risks |-> Append(acc.risks, risk)]

PushConfig(acc, config) == Push(acc, config.weight, config.label, config.risk)

AddTenths(acc, tenths) == [acc EXCEPT !.score = @ + tenths]

\* for (const key of [...]) if (results.ipAnalysis[key]) { ... }
RECURSIVE scoreIpFlags(_, _, _)
scoreIpFlags(acc, ip, i) ==
    IF i > Len(ipFlagKeys) THEN acc
    ELSE scoreIpFlags(IF Truthy(ip[ipFlagKeys[i]])
                      THEN PushConfig(acc, scoringConfig[ipFlagKeys[i]])
                      ELSE acc,
                      ip, i + 1)

\* (typeof riskScore === 'number' ? riskScore : 0) * 0.5, in tenths
riskScoreTenths(riskScore) == 5 * NumberOrZero(riskScore)

scoreIpAnalysis(acc, r) ==
    IF r.ipAnalysis.present
    THEN AddTenths(scoreIpFlags(acc, r.ipAnalysis, 1), riskScoreTenths(r.ipAnalysis.riskScore))
    ELSE acc

scoreWebrtc(acc, r) ==
    IF r.webrtcLeak.present /\ Truthy(r.webrtcLeak.hasLeak)
    THEN LET a1 == PushConfig(acc, scoringConfig.webrtcLeak)
             types == IF r.webrtcLeak.hasCandidateTypes THEN r.webrtcLeak.candidateTypes ELSE {}
             a2 == IF "relay" \in types
                   THEN Push(a1, 10, "WebRTC Relay Candidate Detected",
                             "Presence of relay ICE candidates indicates possible VPN or proxy usage")
                   ELSE a1
         IN  IF "srflx" \in types
             THEN Push(a2, 5, "WebRTC Server Reflexive Candidate Detected",
                       "Presence of server reflexive ICE candidates indicates NAT traversal")
             ELSE a2
    ELSE acc

\* the helper of lines 599-601: 10.x, 192.168.x and 172.16-31.x
isPrivateIp(ip) ==
    \/ ip[1] = 10
    \/ ip[1] = 192 /\ ip[2] = 168
    \/ ip[1] = 172 /\ ip[2] \in 16 .. 31

\* results.ipAnalysis?.timezone, backfilled from the country code when it is
\* missing or 'Unknown'
resolvedIpTimezone(r) ==
    LET ipTimezone == IF r.ipAnalysis.present THEN r.ipAnalysis.timezone ELSE UndefinedText
        country == IF r.ipAnalysis.present THEN r.ipAnalysis.country ELSE UndefinedText
    IN  IF (ipTimezone = <<>> \/ ipTimezone = UnknownText) /\ country # <<>>
           /\ extractCountryCode(country) # ""
        THEN getTimezoneFromCountryCode(extractCountryCode(country))
        ELSE ipTimezone

\* the comparison without the two 'Unknown' guards, to compare timezoneMismatch against
timezoneMismatchUnguarded(r) == r.fingerprint.timezone # resolvedIpTimezone(r)

timezoneMismatch(r) ==
    /\ r.fingerprint.timezone # resolvedIpTimezone(r)
    /\ resolvedIpTimezone(r) # UnknownText
    /\ r.fingerprint.timezone # UnknownText

continentMismatch(r) ==
    LET fingerprintContinent == timezoneToContinent(r.fingerprint.timezone)
        ipCountryCode == IF r.ipAnalysis.present THEN extractCountryCode(r.ipAnalysis.country) ELSE ""
        ipContinent == countryToContinent(ipCountryCode)
    IN  /\ fingerprintContinent # "null"
        /\ ipContinent # "null"
        /\ fingerprintContinent # ipContinent

\* (typeof suspicionScore === 'number' ? suspicionScore : 0) * 0.5, in tenths
suspicionScoreTenths(suspicionScore) == 5 * NumberOrZero(suspicionScore)

suspicionSpoofed(suspicionScore) == NumberOrZero(suspicionScore) > 60

scoreFingerprint(acc, r) ==
    IF r.fingerprint.present
    THEN LET a1 == IF timezoneMismatch(r) THEN PushConfig(acc, timezoneMismatchConfig) ELSE acc
             a2 == IF continentMismatch(r) THEN PushConfig(a1, continentMismatchConfig) ELSE a1
             a3 == AddTenths(a2, suspicionScoreTenths(r.fingerprint.suspicionScore))
             fingerprintSpoofed == \/ timezoneMismatch(r)
                                   \/ continentMismatch(r)
                                   \/ suspicionSpoofed(r.fingerprint.suspicionScore)
         IN  IF fingerprintSpoofed THEN PushConfig(a3, spoofedConfig) ELSE a3
    ELSE acc

\* the location scoring with confidenceScore = weight in place of +=, to
\* compare scoreLocation against
scoreLocationAssigning(acc, r) ==
    IF r.locationMismatch.present /\ r.locationMismatch.hasMismatch = "true"
    THEN [score |-> 10 * scoringConfig.locationMismatch.weight,
          types |-> Append(acc.types, scoringConfig.locationMismatch.label),
          risks |-> Append(acc.risks, scoringConfig.locationMismatch.risk)]
    ELSE acc

scoreLocation(acc, r) ==
    IF r.locationMismatch.present /\ r.locationMismatch.hasMismatch = "true"
    THEN Push(acc, scoringConfig.locationMismatch.weight, scoringConfig.locationMismatch.label,
              IF Truthy(r.locationMismatch.message)
              THEN r.locationMismatch.message
              ELSE scoringConfig.locationMismatch.risk)
    ELSE acc

\* the bot scoring with unshift in place of push, to compare scoreBot against
scoreBotUnshifting(acc, r) ==
    IF r.botDetection.present /\ Truthy(r.botDetection.isBot)
    THEN [score |-> acc.score + 10 * scoringConfig.botDetection.weight,
          types |-> <<scoringConfig.botDetection.label>> \o acc.types,
          risks |-> <<scoringConfig.botDetection.risk>> \o acc.risks]
    ELSE acc

scoreBot(acc, r) ==
    IF r.botDetection.present /\ Truthy(r.botDetection.isBot)
    THEN PushConfig(acc, scoringConfig.botDetection)
    ELSE acc

\* Math.min(100, Math.round(confidenceScore))
capScore(tenths) == Min(100, MathRound(tenths))

\* the decision with a strict threshold, to compare decide against
decideStrictly(confidenceScore) == confidenceScore > 50

decide(confidenceScore) == confidenceScore >= 50

calculateOverallResult(r) ==
    LET acc == scoreBot(scoreLocation(scoreFingerprint(scoreWebrtc(
                   scoreIpAnalysis(EmptyAcc, r), r), r), r), r)
        confidenceScore == capScore(acc.score)
    IN  [computed |-> TRUE,
         isVpnDetected |-> decide(confidenceScore),
         confidenceScore |-> confidenceScore,
         detectedTypes |-> acc.types,
         riskFactors |-> acc.risks]

NoVerdict ==
    [computed |-> FALSE, isVpnDetected |-> FALSE, confidenceScore |-> 0,
     detectedTypes |-> <<>>, riskFactors |-> <<>>]

-----------------------------------------------------------------------------
(* The evidence bundles the Aggregation Engine is applied to *)

RiskStep == 33
MaxRiskMult == 1
SuspicionStep == 35
MaxSuspicionMult == 2

Flags == {"true", "false"}

riskScores == {Num(k * RiskStep) : k \in -1 .. MaxRiskMult} \cup {UnknownNum}

suspicionScores == {Num(k * SuspicionStep) : k \in -1 .. MaxSuspicionMult} \cup {UnknownNum}

ipTimezones == {UndefinedText, UnknownText, <<"Europe", "London">>}

ipCountries == {UnknownText, <<"United", "States", "US">>}

fingerprintTimezones == {UndefinedText, UnknownText, <<"America", "New_York">>, <<"Asia", "Tokyo">>}

AbsentIp ==
    [present |-> FALSE, publicIp |-> "undefined", country |-> UndefinedText,
     timezone |-> UndefinedText, isDatacenter |-> "undefined", isHosting |-> "undefined",
     isTor |-> "undefined", vpnDetected |-> "undefined", blacklisted |-> "undefined",
     riskScore |-> UndefinedNum]

ipSamples ==
    {AbsentIp} \cup
    [present : {TRUE}, publicIp : {"203.0.113.7"}, country : ipCountries,
     timezone : ipTimezones, isDatacenter : Flags, isHosting : Flags, isTor : Flags,
     vpnDetected : Flags, blacklisted : Flags, riskScore : riskScores]

\* an address is the sequence of its four octets; localIpCountry is the text
\* ipapi.co answered for the first local address, '' when it did not
AbsentWebrtc ==
    [present |-> FALSE, hasLeak |-> "undefined", hasCandidateTypes |-> FALSE, candidateTypes |-> {},
     localIps |-> <<>>, localIpCountry |-> "undefined"]

NoLeak ==
    [present |-> TRUE, hasLeak |-> "false", hasCandidateTypes |-> FALSE, candidateTypes |-> {},
     localIps |-> <<>>, localIpCountry |-> ""]

Leak ==
    [present |-> TRUE, hasLeak |-> "true", hasCandidateTypes |-> FALSE, candidateTypes |-> {},
     localIps |-> <<(<<192, 168, 1, 7>>)>>, localIpCountry |-> "DE"]

webrtcSamples ==
    {AbsentWebrtc, NoLeak, Leak,
     [present |-> TRUE, hasLeak |-> "true", hasCandidateTypes |-> TRUE,
      candidateTypes |-> {"host", "srflx", "relay"},
      localIps |-> <<(<<10, 0, 0, 5>>)>>, localIpCountry |-> ""]}

AbsentFingerprint == [present |-> FALSE, timezone |-> UndefinedText, suspicionScore |-> UndefinedNum]

fingerprintSamples ==
    {AbsentFingerprint} \cup
    [present : {TRUE}, timezone : fingerprintTimezones, suspicionScore : suspicionScores]

AbsentLocation ==
    [present |-> FALSE, hasMismatch |-> "undefined", matchLevel |-> "undefined",
     message |-> "undefined"]

locationSamples ==
    {AbsentLocation,
     [present |-> TRUE, hasMismatch |-> "false", matchLevel |-> "good",
      message |-> "Good location match"],
     [present |-> TRUE, hasMismatch |-> "true", matchLevel |-> "mismatch",
      message |-> "Location mismatch"]}

AbsentBot == [present |-> FALSE, isBot |-> "undefined"]

botSamples ==
    {AbsentBot, [present |-> TRUE, isBot |-> "false"], [present |-> TRUE, isBot |-> "true"]}

Bundles ==
    [ipAnalysis : ipSamples, webrtcLeak : webrtcSamples, fingerprint : fingerprintSamples,
     locationMismatch : locationSamples, botDetection : botSamples]

NoResults ==
    [ipAnalysis |-> AbsentIp, webrtcLeak |-> AbsentWebrtc, fingerprint |-> AbsentFingerprint,
     locationMismatch |-> AbsentLocation, botDetection |-> AbsentBot]

-----------------------------------------------------------------------------
(* DetectionEngine.runIpAnalysis *)

\* calculateRiskScore: 40 for a datacenter, 30 for a hosting provider, 20 for a
\* suspicious ASN, capped at 100
calculateRiskScore(isDatacenter, isHosting, suspiciousAsn) ==
    Min(100, (IF isDatacenter THEN 40 ELSE 0) + (IF isHosting THEN 30 ELSE 0)
             + (IF suspiciousAsn THEN 20 ELSE 0))

bool(b) == IF b THEN "true" ELSE "false"

\* what a service reports for an address: only analyzeWithIpInfo fills
\* vpnDetected and blacklisted
serviceRecord(country, timezone, isDatacenter, isHosting, withVpnFields) ==
    [present |-> TRUE, publicIp |-> "203.0.113.7", country |-> country, timezone |-> timezone,
     isDatacenter |-> bool(isDatacenter), isHosting |-> bool(isHosting), isTor |-> "false",
     vpnDetected |-> IF withVpnFields THEN "false" ELSE "undefined",
     blacklisted |-> IF withVpnFields THEN "false" ELSE "undefined",
     riskScore |-> Num(calculateRiskScore(isDatacenter, isHosting, FALSE))]

\* the answers of analyzeWithIpApi, analyzeWithIpify, analyzeWithIpGeolocation
\* and analyzeWithIpInfo, in the order of the services array
serviceResponses ==
    <<{serviceRecord(<<"Germany", "DE">>, UnknownText, TRUE, TRUE, FALSE)},
      {serviceRecord(<<"Germany">>, UnknownText, FALSE, FALSE, FALSE)},
      {serviceRecord(<<"Germany">>, <<"Europe", "Berlin">>, FALSE, FALSE, FALSE)},
      {serviceRecord(<<"DE">>, <<"Europe", "Berlin">>, TRUE, FALSE, TRUE)}>>

Services == 1 .. Len(serviceResponses)

IdleSvc == [st |-> "idle", val |-> AbsentIp]
PendingSvc == [st |-> "pending", val |-> AbsentIp]

\* results.filter(r => r.status === 'fulfilled').map(r => r.value)
RECURSIVE fulfilledValues(_, _)
fulfilledValues(s, i) ==
    IF i > Len(s) THEN <<>>
    ELSE IF s[i].st = "fulfilled" THEN <<s[i].val>> \o fulfilledValues(s, i + 1)
    ELSE fulfilledValues(s, i + 1)

\* every field 'Unknown': what the fill loop leaves when no service supplied it
UnknownIp ==
    [present |-> TRUE, publicIp |-> "Unknown", country |-> UnknownText, timezone |-> UnknownText,
     isDatacenter |-> "Unknown", isHosting |-> "Unknown", isTor |-> "Unknown",
     vpnDetected |-> "Unknown", blacklisted |-> "Unknown", riskScore |-> UnknownNum]

\* v !== undefined && v !== null && v !== 'Unknown', for a value v of the field
isKnownValue(v, field) == v # AbsentIp[field] /\ v # UnknownIp[field]

\* the field of the first fulfilled record whatever it holds (a whole-record
\* preference), to compare findField against
findFieldOfFirstRecord(fulfilled, field, i) ==
    IF i > Len(fulfilled) THEN AbsentIp[field] ELSE fulfilled[i][field]

\* fulfilled.map(r => r[field]).find(isKnownValue), undefined when there is none
RECURSIVE findField(_, _, _)
findField(fulfilled, field, i) ==
    IF i > Len(fulfilled) THEN AbsentIp[field]
    ELSE IF isKnownValue(fulfilled[i][field], field) THEN fulfilled[i][field]
    ELSE findField(fulfilled, field, i + 1)

mergeField(fulfilled, field) == findField(fulfilled, field, 1)

mergeResults(fulfilled) ==
    [present |-> TRUE,
     publicIp |-> mergeField(fulfilled, "publicIp"),
     country |-> mergeField(fulfilled, "country"),
     timezone |-> mergeField(fulfilled, "timezone"),
     isDatacenter |-> mergeField(fulfilled, "isDatacenter"),
     isHosting |-> mergeField(fulfilled, "isHosting"),
     isTor |-> mergeField(fulfilled, "isTor"),
     vpnDetected |-> mergeField(fulfilled, "vpnDetected"),
     blacklisted |-> mergeField(fulfilled, "blacklisted"),
     riskScore |-> mergeField(fulfilled, "riskScore")]

\* if (merged[field] === undefined) merged[field] = 'Unknown'
fillField(m, field) == IF m[field] = AbsentIp[field] THEN UnknownIp[field] ELSE m[field]

fillUnknown(m) ==
    [present |-> TRUE,
     publicIp |-> fillField(m, "publicIp"),
     country |-> fillField(m, "country"),
     timezone |-> fillField(m, "timezone"),
     isDatacenter |-> fillField(m, "isDatacenter"),
     isHosting |-> fillField(m, "isHosting"),
     isTor |-> fillField(m, "isTor"),
     vpnDetected |-> fillField(m, "vpnDetected"),
     blacklisted |-> fillField(m, "blacklisted"),
     riskScore |-> fillField(m, "riskScore")]

\* if (merged.publicIp && merged.publicIp !== 'Unknown'): the enrichment runs
needsEnrichment(m) == Truthy(m.publicIp) /\ m.publicIp # "Unknown"

\* the record of the catch branch of runIpAnalysis
ipAnalysisSentinel ==
    [present |-> TRUE, publicIp |-> "Unknown", country |-> UnknownText, timezone |-> UnknownText,
     isDatacenter |-> "false", isHosting |-> "false", isTor |-> "false",
     vpnDetected |-> "false", blacklisted |-> "false", riskScore |-> Num(0)]

\* analyzeWithWhatIsMyIpAddress: the two flags scraped from the pages, both
\* false when a fetch failed (the catch branch)
enrich(m, vpnDetected, blacklisted) ==
    [m EXCEPT !.vpnDetected = bool(vpnDetected), !.blacklisted = bool(blacklisted)]

-----------------------------------------------------------------------------
(* The other four producers *)

Idle == [st |-> "idle"]
Pending == [st |-> "pending"]
Rejected == [st |-> "rejected"]
Hung == [st |-> "hung"]

\* WebRTCLeak.detectLeak resolves with hasLeak: uniqueLocalIps.length > 0
detectLeakResult(foundLocalIp) == IF foundLocalIp THEN Leak ELSE NoLeak

\* BrowserFingerprinting.generateFingerprint: the timezone of the client clock
\* and the suspicion score
fingerprintResults ==
    {[present |-> TRUE, timezone |-> <<"Europe", "Berlin">>, suspicionScore |-> Num(0)],
     [present |-> TRUE, timezone |-> <<"Asia", "Tokyo">>, suspicionScore |-> Num(70)]}

\* GPS-to-IP distances in km that checkLocationMismatch may compute
distances == {120, 640, 3936}

locationMessage(matchLevel) ==
    CASE matchLevel = "good" -> "Good location match"
      [] matchLevel = "fair" -> "Fair location match"
      [] OTHER -> "Location mismatch"

\* the matchLevel chain with < in place of <=, to compare matchLevelOf against
matchLevelOfStrictly(distance) ==
    IF distance < 300 THEN "good"
    ELSE IF distance < 1000 THEN "fair"
    ELSE "mismatch"

matchLevelOf(distance) ==
    IF distance <= 300 THEN "good" ELSE IF distance <= 1000 THEN "fair" ELSE "mismatch"

\* LocationMismatch.checkLocationMismatch: what it resolves with, given how the
\* GPS and the IP lookups ended and the distance between the two places
checkLocationMismatchResult(gpsSuccess, ipSuccess, distance, threw) ==
    IF threw
    THEN [present |-> TRUE, hasMismatch |-> "false", matchLevel |-> "mismatch",
          message |-> "Location check failed"]
    ELSE IF ~gpsSuccess \/ ~ipSuccess
    THEN [present |-> TRUE, hasMismatch |-> "false",
          matchLevel |-> IF gpsSuccess THEN "mismatch" ELSE "good",
          message |-> IF gpsSuccess THEN "Could not determine location"
                      ELSE "Location turned off or unavailable"]
    ELSE [present |-> TRUE, hasMismatch |-> bool(matchLevelOf(distance) = "mismatch"),
          matchLevel |-> matchLevelOf(distance),
          message |-> locationMessage(matchLevelOf(distance))]

\* runBotDetection: botScore = 20 for each of the five checks that is true
runBotDetectionResult(trueChecks) ==
    [present |-> TRUE, isBot |-> bool(trueChecks * 20 >= 60)]

-----------------------------------------------------------------------------
(* DetectionEngine.runFullDetection *)

NoOutcome == [kind |-> "none", value |-> NoVerdict]

Init ==
    /\ results = NoResults
    /\ verdict = NoVerdict
    /\ pc = "idle"
    /\ svc = [i \in Services |-> IdleSvc]
    /\ ipPhase = "idle"
    /\ merged = AbsentIp
    /\ fallback = "idle"
    /\ webrtc = Idle
    /\ fingerprint = Idle
    /\ location = Idle
    /\ bot = Idle
    /\ logState = "idle"
    /\ outcome = NoOutcome
    /\ locationCheck = Idle
    /\ leak = Idle
    /\ botDetector = Idle
    /\ ipClassifier = Idle
    /\ behavior = Idle

\* Promise.all([...]) of line 27: the five producers are called one after the
\* other in the same synchronous step
Start ==
    /\ pc = "idle"
    /\ pc' = "awaitAll"
    /\ svc' = [i \in Services |-> PendingSvc]
    /\ ipPhase' = "services"
    /\ webrtc' = Pending
    /\ fingerprint' = Pending
    /\ location' = Pending
    /\ bot' = Pending
    /\ UNCHANGED componentVars
    /\ UNCHANGED <<results, verdict, merged, fallback, logState, outcome>>

\* one analyzeWith* call fulfils with the service's answer
ServiceFulfils(i) ==
    /\ ipPhase = "services"
    /\ svc[i].st = "pending"
    /\ \E r \in serviceResponses[i] : svc' = [svc EXCEPT ![i] = [st |-> "fulfilled", val |-> r]]
    /\ UNCHANGED componentVars
    /\ UNCHANGED <<results, verdict, pc, ipPhase, merged, fallback, webrtc, fingerprint,
                   location, bot, logState, outcome>>

\* one analyzeWith* call rejects: an HTTP error, a network error, or its
\* AbortSignal.timeout fired; the catch block rethrows
ServiceRejects(i) ==
    /\ ipPhase = "services"
    /\ svc[i].st = "pending"
    /\ svc' = [svc EXCEPT ![i] = [st |-> "rejected", val |-> AbsentIp]]
    /\ UNCHANGED componentVars
    /\ UNCHANGED <<results, verdict, pc, ipPhase, merged, fallback, webrtc, fingerprint,
                   location, bot, logState, outcome>>

\* the tail of runIpAnalysis from the fill loop on: fill with 'Unknown', then
\* either start the enrichment or return merged
phaseAfterFill(m) == IF needsEnrichment(fillUnknown(m)) THEN "enrich" ELSE "fulfilled"

allServicesSettled == \A i \in Services : svc[i].st \in {"fulfilled", "rejected"}

mergedServices == mergeResults(fulfilledValues(svc, 1))

\* Promise.allSettled(services) resolved: merge, and without a publicIp start
\* the last-resort lookup
ServicesSettled ==
    /\ ipPhase = "services"
    /\ allServicesSettled
    /\ merged' = IF Truthy(mergedServices.publicIp) THEN fillUnknown(mergedServices)
                 ELSE mergedServices
    /\ ipPhase' = IF Truthy(mergedServices.publicIp) THEN phaseAfterFill(mergedServices)
                  ELSE "fallback"
    /\ fallback' = IF Truthy(mergedServices.publicIp) THEN fallback ELSE "pending"
    /\ UNCHANGED componentVars
    /\ UNCHANGED <<results, verdict, pc, svc, webrtc, fingerprint, location, bot,
                   logState, outcome>>

\* the address the last-resort lookup supplies
withPublicIp(m, ip) == [m EXCEPT !.publicIp = ip]

\* the fetch of api.ipify.org of line 886, which carries no timeout, answers
\* with the address, or fails (the empty catch), or never answers
FallbackSettles ==
    /\ ipPhase = "fallback"
    /\ fallback = "pending"
    /\ \E o \in {"ok", "failed", "never"} :
          /\ fallback' = o
          /\ merged' = CASE o = "ok" -> fillUnknown(withPublicIp(merged, "203.0.113.7"))
                         [] o = "failed" -> fillUnknown(merged)
                         [] OTHER -> merged
          /\ ipPhase' = CASE o = "ok" -> phaseAfterFill(withPublicIp(merged, "203.0.113.7"))
                          [] o = "failed" -> phaseAfterFill(merged)
                          [] OTHER -> "hung"
    /\ UNCHANGED componentVars
    /\ UNCHANGED <<results, verdict, pc, svc, webrtc, fingerprint, location, bot,
                   logState, outcome>>

\* analyzeWithWhatIsMyIpAddress: its fetches carry no timeout; they answer, or
\* one fails (both flags false), or one never answers
EnrichmentSettles ==
    /\ ipPhase = "enrich"
    /\ \/ \E v, b \in BOOLEAN : merged' = enrich(merged, v, b) /\ ipPhase' = "fulfilled"
       \/ ipPhase' = "hung" /\ UNCHANGED merged
    /\ UNCHANGED componentVars
    /\ UNCHANGED <<results, verdict, pc, svc, fallback, webrtc, fingerprint, location, bot,
                   logState, outcome>>

\* detectLeak: every STUN check ends by its 3 s timer at the latest; without a
\* local address the promise resolves at once, with one it first looks the
\* country of the address up
IceGathered ==
    /\ webrtc.st = "pending"
    /\ \E foundLocalIp \in BOOLEAN :
          webrtc' = IF foundLocalIp THEN [st |-> "countryLookup"]
                    ELSE [st |-> "fulfilled", val |-> detectLeakResult(FALSE)]
    /\ UNCHANGED componentVars
    /\ UNCHANGED <<results, verdict, pc, svc, ipPhase, merged, fallback, fingerprint,
                   location, bot, logState, outcome>>

\* the fetch of ipapi.co/<ip>/country/, which carries no timeout: it answers or
\* fails (either way the promise resolves), or it never answers
CountryLookupSettles ==
    /\ webrtc.st = "countryLookup"
    /\ \E answers \in BOOLEAN :
          webrtc' = IF answers THEN [st |-> "fulfilled", val |-> detectLeakResult(TRUE)] ELSE Hung
    /\ UNCHANGED componentVars
    /\ UNCHANGED <<results, verdict, pc, svc, ipPhase, merged, fallback, fingerprint,
                   location, bot, logState, outcome>>

\* generateFingerprint: it returns the fingerprint, or throws (nothing in it
\* catches a failing navigator or canvas access), or its audio fingerprint
\* never resolves
FingerprintSettles ==
    /\ fingerprint.st = "pending"
    /\ \/ \E f \in fingerprintResults : fingerprint' = [st |-> "fulfilled", val |-> f]
       \/ fingerprint' = Rejected
       \/ fingerprint' = Hung
    /\ UNCHANGED componentVars
    /\ UNCHANGED <<results, verdict, pc, svc, ipPhase, merged, fallback, webrtc,
                   location, bot, logState, outcome>>

\* checkLocationMismatch: both lookups end, or the function throws and catches,
\* or one of its fetches, which carry no timeout, never answers
LocationSettles ==
    /\ location.st = "pending"
    /\ \/ \E gps, ip, threw \in BOOLEAN, d \in distances :
             location' = [st |-> "fulfilled", val |-> checkLocationMismatchResult(gps, ip, d, threw)]
       \/ location' = Hung
    /\ UNCHANGED componentVars
    /\ UNCHANGED <<results, verdict, pc, svc, ipPhase, merged, fallback, webrtc,
                   fingerprint, bot, logState, outcome>>

\* runBotDetection: the five checks end, or one of them throws
BotSettles ==
    /\ bot.st = "pending"
    /\ \/ \E trueChecks \in 0 .. 5 :
             bot' = [st |-> "fulfilled", val |-> runBotDetectionResult(trueChecks)]
       \/ bot' = Rejected
    /\ UNCHANGED componentVars
    /\ UNCHANGED <<results, verdict, pc, svc, ipPhase, merged, fallback, webrtc,
                   fingerprint, location, logState, outcome>>

ipSt == IF ipPhase \in {"fulfilled", "rejected"} THEN ipPhase ELSE "pending"

producerStates == <<ipSt, webrtc.st, fingerprint.st, location.st, bot.st>>

\* Promise.all: fulfilled when all five are, rejected as soon as one is
promiseAll(states) ==
    IF \E i \in DOMAIN states : states[i] = "rejected" THEN "rejected"
    ELSE IF \A i \in DOMAIN states : states[i] = "fulfilled" THEN "fulfilled"
    ELSE "pending"

\* lines 35-48: build the bundle, compute the verdict, call logDetection
Aggregate ==
    /\ pc = "awaitAll"
    /\ promiseAll(producerStates) = "fulfilled"
    /\ results' = [ipAnalysis |-> merged, webrtcLeak |-> webrtc.val,
                   fingerprint |-> fingerprint.val, locationMismatch |-> location.val,
                   botDetection |-> bot.val]
    /\ verdict' = calculateOverallResult(results')
    /\ logState' = "pending"
    /\ pc' = "awaitLog"
    /\ UNCHANGED componentVars
    /\ UNCHANGED <<svc, ipPhase, merged, fallback, webrtc, fingerprint, location, bot, outcome>>

\* the catch of line 50: throw new Error('Detection failed')
detectionFailed == [kind |-> "thrown", value |-> NoVerdict]

ProducerRejected ==
    /\ pc = "awaitAll"
    /\ promiseAll(producerStates) = "rejected"
    /\ pc' = "thrown"
    /\ outcome' = detectionFailed
    /\ UNCHANGED componentVars
    /\ UNCHANGED <<results, verdict, svc, ipPhase, merged, fallback, webrtc, fingerprint,
                   location, bot, logState>>

\* apiClient.logDetection: the fetch, which carries no timeout, answers, or
\* fails (and the client rethrows), or never answers
LogSettles ==
    /\ logState = "pending"
    /\ \E o \in {"ok", "failed", "never"} : logState' = o
    /\ UNCHANGED componentVars
    /\ UNCHANGED <<results, verdict, pc, svc, ipPhase, merged, fallback, webrtc,
                   fingerprint, location, bot, outcome>>

\* logDetection without its try/catch, to compare logDetection against
logDetectionUncaught(api) ==
    CASE api = "ok" -> "fulfilled"
      [] api = "failed" -> "rejected"
      [] OTHER -> "pending"

\* DetectionEngine.logDetection: how its promise stands for a state of the
\* client's call; the catch of line 1346 swallows a failure
logDetection(api) ==
    CASE api \in {"ok", "failed"} -> "fulfilled"
      [] OTHER -> "pending"

\* line 48-49: await this.logDetection(...); return detectionResult
AfterLog ==
    /\ pc = "awaitLog"
    /\ logDetection(logState) # "pending"
    /\ IF logDetection(logState) = "fulfilled"
       THEN pc' = "returned" /\ outcome' = [kind |-> "returned", value |-> verdict]
       ELSE pc' = "thrown" /\ outcome' = detectionFailed
    /\ UNCHANGED componentVars
    /\ UNCHANGED <<results, verdict, svc, ipPhase, merged, fallback, webrtc, fingerprint,
                   location, bot, logState>>

Next ==
    \/ Start
    \/ \E i \in Services : ServiceFulfils(i)
    \/ \E i \in Services : ServiceRejects(i)
    \/ ServicesSettled
    \/ FallbackSettles
    \/ EnrichmentSettles
    \/ IceGathered
    \/ CountryLookupSettles
    \/ FingerprintSettles
    \/ LocationSettles
    \/ BotSettles
    \/ Aggregate
    \/ ProducerRejected
    \/ LogSettles
    \/ AfterLog

Spec == Init /\ [][Next]_vars

-----------------------------------------------------------------------------
(* The Aggregation Engine applied to every bundle *)

AggInit ==
    /\ results \in Bundles
    /\ verdict = NoVerdict
    /\ pc = "pure"
    /\ svc = [i \in Services |-> IdleSvc]
    /\ ipPhase = "idle"
    /\ merged = AbsentIp
    /\ fallback = "idle"
    /\ webrtc = Idle
    /\ fingerprint = Idle
    /\ location = Idle
    /\ bot = Idle
    /\ logState = "idle"
    /\ outcome = NoOutcome
    /\ locationCheck = Idle
    /\ leak = Idle
    /\ botDetector = Idle
    /\ ipClassifier = Idle
    /\ behavior = Idle

Calculate ==
    /\ pc = "pure"
    /\ ~verdict.computed
    /\ verdict' = calculateOverallResult(results)
    /\ UNCHANGED componentVars
    /\ UNCHANGED <<results, pc, svc, ipPhase, merged, fallback, webrtc, fingerprint,
                   location, bot, logState, outcome>>

AggNext == Calculate

AggSpec == AggInit /\ [][AggNext]_vars

-----------------------------------------------------------------------------
(* Properties of the Aggregation Engine, under AggSpec *)

C2_ScoreWithin0And100 ==
    verdict.computed => verdict.confidenceScore \in 0 .. 100

\* the score table of the documentation (README, Detection Calculation)
documentedWeights ==
    [isDatacenter |-> 30, isHosting |-> 25, isTor |-> 40, vpnDetected |-> 50,
     blacklisted |-> 30, webrtcLeak |-> 35, timezoneMismatch |-> 20,
     continentMismatch |-> 20, locationMismatch |-> 40, botDetection |-> 35]

\* the documented delta, in tenths, of a signal that holds
delta(holds, key) == IF holds THEN 10 * documentedWeights[key] ELSE 0

\* S of the documented table, in tenths: riskScore * 0.3 and suspicionScore * 0.4
documentedTenths(r) ==
    (IF r.ipAnalysis.present
     THEN delta(Truthy(r.ipAnalysis.isDatacenter), "isDatacenter")
          + delta(Truthy(r.ipAnalysis.isHosting), "isHosting")
          + delta(Truthy(r.ipAnalysis.isTor), "isTor")
          + delta(Truthy(r.ipAnalysis.vpnDetected), "vpnDetected")
          + delta(Truthy(r.ipAnalysis.blacklisted), "blacklisted")
          + 3 * NumberOrZero(r.ipAnalysis.riskScore)
     ELSE 0)
    + delta(r.webrtcLeak.present /\ Truthy(r.webrtcLeak.hasLeak), "webrtcLeak")
    + (IF r.fingerprint.present
       THEN delta(timezoneMismatch(r), "timezoneMismatch")
            + delta(continentMismatch(r), "continentMismatch")
            + 4 * NumberOrZero(r.fingerprint.suspicionScore)
       ELSE 0)
    + delta(r.locationMismatch.present /\ r.locationMismatch.hasMismatch = "true",
            "locationMismatch")
    + delta(r.botDetection.present /\ Truthy(r.botDetection.isBot), "botDetection")

\* the bundle of the test "no flags": every sub-record present and neutral
neutralBundle ==
    [ipAnalysis |-> [present |-> TRUE, publicIp |-> "203.0.113.7", country |-> UnknownText,
                     timezone |-> UnknownText, isDatacenter |-> "false", isHosting |-> "false",
                     isTor |-> "false", vpnDetected |-> "false", blacklisted |-> "false",
                     riskScore |-> Num(0)],
     webrtcLeak |-> NoLeak,
     fingerprint |-> [present |-> TRUE, timezone |-> UnknownText, suspicionScore |-> Num(0)],
     locationMismatch |-> [present |-> TRUE, hasMismatch |-> "false", matchLevel |-> "good",
                           message |-> "Good location match"],
     botDetection |-> [present |-> TRUE, isBot |-> "false"]]

datacenterAlone == [neutralBundle EXCEPT !.ipAnalysis.isDatacenter = "true"]

locationMismatchAlone ==
    [neutralBundle EXCEPT !.locationMismatch =
        [present |-> TRUE, hasMismatch |-> "true", matchLevel |-> "mismatch",
         message |-> "Location mismatch"]]

\* C3: confidenceScore equals min(100, round(S)), S the sum of the documented
\* deltas of the signals that hold (Datacenter IP +30, Hosting Provider +25,
\* Tor Exit Node +40, VPN Server Detected +50, Blacklisted IP +30, riskScore*0.3,
\* WebRTC Leak +35, timezone mismatch +20, continent mismatch +20,
\* suspicionScore*0.4, Location Mismatch +40, Bot/Automation +35); isDatacenter
\* alone gives 30 with the one label "Datacenter IP" and no detection, a
\* location mismatch alone gives 40 and no detection.
C3_ScoreIsDocumentedSum ==
    verdict.computed =>
        /\ verdict.confidenceScore = Min(100, MathRound(documentedTenths(results)))
        /\ results = datacenterAlone =>
              /\ verdict.confidenceScore = 30
              /\ verdict.detectedTypes = <<"Datacenter IP">>
              /\ ~verdict.isVpnDetected
        /\ results = locationMismatchAlone =>
              /\ verdict.confidenceScore = 40
              /\ ~verdict.isVpnDetected

\* a sub-record that is absent, or present with nothing to report
neutralIp(ip) ==
    \/ ~ip.present
    \/ /\ \A i \in DOMAIN ipFlagKeys : ip[ipFlagKeys[i]] \in {"false", "undefined"}
       /\ ip.riskScore = Num(0)
       /\ ip.timezone \in {UndefinedText, UnknownText}
       /\ ip.country \in {UndefinedText, UnknownText}

neutralFingerprint(f) ==
    \/ ~f.present
    \/ f.suspicionScore = Num(0) /\ f.timezone \in {UndefinedText, UnknownText}

neutral(r) ==
    /\ neutralIp(r.ipAnalysis)
    /\ ~r.webrtcLeak.present \/ r.webrtcLeak.hasLeak = "false"
    /\ neutralFingerprint(r.fingerprint)
    /\ ~r.locationMismatch.present \/ r.locationMismatch.hasMismatch = "false"
    /\ ~r.botDetection.present \/ r.botDetection.isBot = "false"

\* C4: when each of the five sub-records is absent or neutral, the verdict has
\* confidenceScore 0, isVpnDetected false and no label and no risk factor.
C4_NeutralBundleScoresZero ==
    (verdict.computed /\ neutral(results)) =>
        /\ verdict.confidenceScore = 0
        /\ ~verdict.isVpnDetected
        /\ verdict.detectedTypes = <<>>
        /\ verdict.riskFactors = <<>>

\* a computed verdict for a neutral bundle in which the fingerprint has no
\* timezone, the IP record says 'Unknown' and two sub-records are absent
C4_Witness ==
    /\ verdict.computed
    /\ neutral(results)
    /\ results.ipAnalysis.present /\ results.ipAnalysis.timezone = UnknownText
    /\ results.fingerprint.present /\ results.fingerprint.timezone = UndefinedText
    /\ ~results.webrtcLeak.present
    /\ ~results.botDetection.present
    /\ results.locationMismatch.present

-----------------------------------------------------------------------------
(* Properties of runFullDetection, under Spec *)

ipLabels == {"Datacenter IP", "Hosting Provider", "Tor Exit Node", "VPN Server Detected",
             "Blacklisted IP"}

labelsOf(v) == {v.detectedTypes[i] : i \in DOMAIN v.detectedTypes}

allServicesFailed == \A i \in Services : svc[i].st = "rejected"

\* C5: when every IP service fails and the last-resort lookup fails too,
\* runIpAnalysis yields the neutral sentinel (the five flags false, riskScore 0,
\* country and timezone "Unknown"), and the verdict carries none of the five IP
\* labels.
C5_TotalFailureYieldsSentinel ==
    (ipPhase = "fulfilled" /\ allServicesFailed /\ fallback = "failed") =>
        /\ merged = ipAnalysisSentinel
        /\ verdict.computed => labelsOf(verdict) \cap ipLabels = {}

oneRejectedOthersFulfilled ==
    /\ Cardinality({i \in DOMAIN producerStates : producerStates[i] = "rejected"}) = 1
    /\ \A i \in DOMAIN producerStates : producerStates[i] \in {"rejected", "fulfilled"}

\* C6: if one of the five producers rejects while the others succeed,
\* runFullDetection does not reject: the failure is never surfaced to the caller.
C6_ProducerFailureNotSurfaced ==
    oneRejectedOthersFulfilled => outcome.kind # "thrown"

allSettled == \A i \in DOMAIN producerStates : producerStates[i] \in {"rejected", "fulfilled"}

noneStarted ==
    /\ ipPhase = "idle"
    /\ \A p \in {webrtc, fingerprint, location, bot} : p.st = "idle"

allStarted ==
    /\ ipPhase # "idle"
    /\ \A p \in {webrtc, fingerprint, location, bot} : p.st # "idle"

\* C7: the five producers are started together, and the orchestrator neither
\* aggregates nor returns nor throws before every one of the five has settled.
C7_NoStepBeforeAllSettled ==
    /\ noneStarted \/ allStarted
    /\ pc \in {"awaitLog", "returned", "thrown"} => allSettled

\* C8: when the logging call fails, runFullDetection still resolves, with
\* exactly the verdict calculateOverallResult produced; it never throws.
C8_LogFailureSwallowed ==
    logState = "failed" =>
        /\ pc \in {"awaitLog", "returned"}
        /\ pc = "awaitLog" => ENABLED AfterLog
        /\ pc = "returned" =>
              outcome = [kind |-> "returned", value |-> calculateOverallResult(results)]

\* the logging call failed and the caller holds the verdict
C8_Witness ==
    /\ logState = "failed"
    /\ pc = "returned"
    /\ outcome.kind = "returned"
    /\ outcome.value.computed

\* C9: the hand-over to the logging sink is fire-and-forget: once the call has
\* been issued, runFullDetection has returned the verdict, whether the sink has
\* answered or not.
C9_ReturnsWithoutAwaitingLog ==
    logState # "idle" => pc = "returned"

\* some call of the run has neither answered nor been given up
inFlight ==
    \/ \E i \in Services : svc[i].st = "pending"
    \/ fallback = "pending"
    \/ ipPhase = "enrich"
    \/ webrtc.st \in {"pending", "countryLookup"}
    \/ fingerprint.st = "pending"
    \/ location.st = "pending"
    \/ bot.st = "pending"
    \/ logState = "pending"

\* C10: every run of runFullDetection eventually settles, also when an external
\* call of a producer never answers: as no step of a run can be taken twice,
\* this says that a run that has not settled either has a call in flight or
\* has a step left to take (the logging sink aside, which is no producer).
C10_SettlesOrCanStep ==
    \/ pc \in {"returned", "thrown"}
    \/ logState = "never"
    \/ inFlight
    \/ ENABLED Next

-----------------------------------------------------------------------------
(* Properties of runIpAnalysis' merge, under Spec *)

ipFields == {"publicIp", "country", "timezone", "isDatacenter", "isHosting", "isTor",
             "vpnDetected", "blacklisted", "riskScore"}

\* the fields analyzeWithWhatIsMyIpAddress overwrites after the merge
enrichedFields == {"vpnDetected", "blacklisted"}

\* the services that succeeded and reported a value for the field other than
\* undefined and 'Unknown'
reporters(field) ==
    {i \in Services : svc[i].st = "fulfilled" /\ svc[i].val[field] # AbsentIp[field]
                                              /\ svc[i].val[field] # UnknownIp[field]}

\* the first of them in the order of the services array
firstReporter(field) == CHOOSE i \in reporters(field) : \A j \in reporters(field) : i <= j

\* the field has the value of its first reporter
fromFirstReporter(field) ==
    reporters(field) # {} => merged[field] = svc[firstReporter(field)].val[field]

\* C11 (as stated): every field of the record runIpAnalysis returns has the
\* value reported by the first service, in the order of the services array,
\* that succeeded and reported a value for it.
C11_EveryFieldFromFirstReporter ==
    ipPhase = "fulfilled" => \A field \in ipFields : fromFirstReporter(field)

\* C11 (amended): the same for every field but vpnDetected and blacklisted,
\* which the enrichment overwrites whenever a public IP is known; a field no
\* service reported is 'Unknown'.
C11_MergedFieldsFromFirstReporter ==
    ipPhase = "fulfilled" =>
        \A field \in ipFields \ enrichedFields :
            /\ fromFirstReporter(field)
            /\ (reporters(field) = {} /\ field # "publicIp") => merged[field] = UnknownIp[field]

\* the first service failed, the second reported timezone 'Unknown', and the
\* record has the timezone of the third and the country of the second
C11_Witness ==
    /\ ipPhase = "fulfilled"
    /\ svc[1].st = "rejected"
    /\ svc[2].st = "fulfilled" /\ svc[2].val.timezone = UnknownText
    /\ firstReporter("timezone") = 3
    /\ merged.timezone = <<"Europe", "Berlin">>
    /\ merged.country = <<"Germany">>

-----------------------------------------------------------------------------
(* The Aggregation Engine applied to the bundles that differ in their *)
(* timezone, country, suspicion and WebRTC evidence *)

signalCountries ==
    {UndefinedText, UnknownText, <<"Germany">>, <<"United", "States", "US">>,
     <<"DR", "Congo", "CD">>, <<"Japan", "JP">>, <<"us">>}

signalIpTimezones ==
    {UndefinedText, UnknownText, <<"Europe", "London">>, <<"America", "New_York">>}

signalSuspicionScores == {Num(0), Num(60), Num(61), Num(70), Num(71), UnknownNum}

signalIpSamples ==
    {AbsentIp} \cup
    [present : {TRUE}, publicIp : {"203.0.113.7"}, country : signalCountries,
     timezone : signalIpTimezones, isDatacenter : {"false"}, isHosting : {"false"},
     isTor : {"false"}, vpnDetected : {"false"}, blacklisted : {"false"},
     riskScore : {Num(0)}]

signalFingerprintSamples ==
    {AbsentFingerprint} \cup
    [present : {TRUE}, timezone : fingerprintTimezones, suspicionScore : signalSuspicionScores]

SignalBundles ==
    [ipAnalysis : signalIpSamples, webrtcLeak : webrtcSamples,
     fingerprint : signalFingerprintSamples, locationMismatch : {AbsentLocation},
     botDetection : {AbsentBot}]

SignalInit ==
    /\ results \in SignalBundles
    /\ verdict = NoVerdict
    /\ pc = "pure"
    /\ svc = [i \in Services |-> IdleSvc]
    /\ ipPhase = "idle"
    /\ merged = AbsentIp
    /\ fallback = "idle"
    /\ webrtc = Idle
    /\ fingerprint = Idle
    /\ location = Idle
    /\ bot = Idle
    /\ logState = "idle"
    /\ outcome = NoOutcome
    /\ locationCheck = Idle
    /\ leak = Idle
    /\ botDetector = Idle
    /\ ipClassifier = Idle
    /\ behavior = Idle

SignalSpec == SignalInit /\ [][AggNext]_vars

-----------------------------------------------------------------------------
(* Properties of the fingerprint and WebRTC signals, under SignalSpec *)

\* how often the verdict carries the label
labelCount(v, label) == Cardinality({i \in DOMAIN v.detectedTypes : v.detectedTypes[i] = label})

\* a timezone or country text that is neither missing nor 'Unknown'
knownText(x) == x # UndefinedText /\ x # UnknownText

timezonesKnownAndUnequal(r) ==
    /\ r.fingerprint.present
    /\ knownText(r.fingerprint.timezone)
    /\ knownText(resolvedIpTimezone(r))
    /\ r.fingerprint.timezone # resolvedIpTimezone(r)

\* C12: "Fingerprint Timezone Mismatch" appears exactly once when the
\* fingerprint timezone and the resolved IP timezone are both known and
\* unequal, and not at all when they are equal or either one is missing or
\* "Unknown" (also when ipAnalysis is absent).
C12_TimezoneMismatchLabel ==
    verdict.computed =>
        labelCount(verdict, "Fingerprint Timezone Mismatch")
            = IF timezonesKnownAndUnequal(results) THEN 1 ELSE 0

\* the trailing token of a country text when it is two upper-case letters
trailingCountryCode(country) ==
    IF country # <<>> /\ country[Len(country)] \in UpperTwo THEN country[Len(country)] ELSE ""

continentsKnownAndUnequal(r) ==
    /\ r.fingerprint.present
    /\ r.ipAnalysis.present
    /\ timezoneToContinent(r.fingerprint.timezone) # "null"
    /\ countryToContinent(trailingCountryCode(r.ipAnalysis.country)) # "null"
    /\ timezoneToContinent(r.fingerprint.timezone)
           # countryToContinent(trailingCountryCode(r.ipAnalysis.country))

\* C13: "Fingerprint Continent Mismatch" is appended if and only if the
\* fingerprint timezone maps to a known continent, the country code resolved
\* from ipAnalysis.country (its trailing token) maps to a known continent, and
\* the two continents differ.
C13_ContinentMismatchLabel ==
    verdict.computed =>
        ("Fingerprint Continent Mismatch" \in labelsOf(verdict)
             <=> continentsKnownAndUnequal(results))

\* C14: the country code the mismatch checks use is the trailing 2-letter
\* upper-case token of ipAnalysis.country, also when the text holds more than
\* one such token; without such a trailing token no code is resolved and the
\* continent check is skipped.
C14_CodeIsTrailingToken ==
    (verdict.computed /\ results.ipAnalysis.present) =>
        /\ extractCountryCode(results.ipAnalysis.country)
               = trailingCountryCode(results.ipAnalysis.country)
        /\ trailingCountryCode(results.ipAnalysis.country) = ""
               => "Fingerprint Continent Mismatch" \notin labelsOf(verdict)

\* C16: for a bundle with a fingerprint, "Suspicious Fingerprint" is in
\* detectedTypes if and only if the raw suspicionScore is greater than 70.
C16_SuspiciousFingerprintLabel ==
    (verdict.computed /\ results.fingerprint.present) =>
        ("Suspicious Fingerprint" \in labelsOf(verdict)
             <=> NumberOrZero(results.fingerprint.suspicionScore) > 70)

\* the tokens of a country text
tokensOf(text) == {text[i] : i \in DOMAIN text}

\* a leak whose first local address is private and was located in a country
\* that is known and is not the country of the public address
localCountryMismatch(r) ==
    /\ r.webrtcLeak.present
    /\ Truthy(r.webrtcLeak.hasLeak)
    /\ r.webrtcLeak.localIps # <<>>
    /\ isPrivateIp(r.webrtcLeak.localIps[1])
    /\ Truthy(r.webrtcLeak.localIpCountry)
    /\ r.ipAnalysis.present
    /\ knownText(r.ipAnalysis.country)
    /\ r.webrtcLeak.localIpCountry \notin tokensOf(r.ipAnalysis.country)

\* C17: "WebRTC Local IP Country Mismatch" is appended when there is a leak and
\* the country of a private local candidate address is known and differs from
\* the country of the public address, and is not appended otherwise.
C17_LocalIpCountryMismatchLabel ==
    verdict.computed =>
        ("WebRTC Local IP Country Mismatch" \in labelsOf(verdict)
             <=> localCountryMismatch(results))

-----------------------------------------------------------------------------
(* Further properties of the Aggregation Engine, under AggSpec *)

\* the critical flags of the documentation (README, Detection Calculation)
criticalFlag(r, v) ==
    \/ r.webrtcLeak.present /\ Truthy(r.webrtcLeak.hasLeak)
    \/ r.locationMismatch.present /\ r.locationMismatch.hasMismatch = "true"
    \/ r.botDetection.present /\ Truthy(r.botDetection.isBot)
    \/ "Fingerprint Timezone Mismatch" \in labelsOf(v)
    \/ "Fingerprint Continent Mismatch" \in labelsOf(v)

\* C15: a detection is flagged if confidenceScore is 50 or higher, or if a
\* critical flag (WebRTC leak, location mismatch, bot detection, fingerprint
\* timezone or continent mismatch) is true, even when confidenceScore < 50.
C15_CriticalFlagForcesDetection ==
    verdict.computed =>
        (verdict.isVpnDetected
             <=> (verdict.confidenceScore >= 50 \/ criticalFlag(results, verdict)))

-----------------------------------------------------------------------------
(* The Aggregation Engine applied to the bundles that differ in their flags *)
(* and labels *)

labelIpSamples ==
    {AbsentIp} \cup
    [present : {TRUE}, publicIp : {"203.0.113.7"}, country : {<<"United", "States", "US">>},
     timezone : {UnknownText, <<"Europe", "London">>}, isDatacenter : Flags,
     isHosting : Flags, isTor : Flags, vpnDetected : Flags, blacklisted : Flags,
     riskScore : riskScores]

labelFingerprintSamples ==
    {AbsentFingerprint} \cup
    [present : {TRUE}, timezone : {<<"America", "New_York">>, <<"Asia", "Tokyo">>},
     suspicionScore : {Num(0), Num(70)}]

LabelBundles ==
    [ipAnalysis : labelIpSamples, webrtcLeak : webrtcSamples,
     fingerprint : labelFingerprintSamples, locationMismatch : locationSamples,
     botDetection : botSamples]

LabelInit ==
    /\ results \in LabelBundles
    /\ verdict = NoVerdict
    /\ pc = "pure"
    /\ svc = [i \in Services |-> IdleSvc]
    /\ ipPhase = "idle"
    /\ merged = AbsentIp
    /\ fallback = "idle"
    /\ webrtc = Idle
    /\ fingerprint = Idle
    /\ location = Idle
    /\ bot = Idle
    /\ logState = "idle"
    /\ outcome = NoOutcome
    /\ locationCheck = Idle
    /\ leak = Idle
    /\ botDetector = Idle
    /\ ipClassifier = Idle
    /\ behavior = Idle

LabelSpec == LabelInit /\ [][AggNext]_vars

-----------------------------------------------------------------------------
(* Properties of the labels, the risk factors and the flags, under LabelSpec *)

\* the labels in the order in which calculateOverallResult evaluates them
labelOrder ==
    <<"Datacenter IP", "Hosting Provider", "Tor Exit Node", "VPN Server Detected",
      "Blacklisted IP", "WebRTC Leak", "WebRTC Relay Candidate Detected",
      "WebRTC Server Reflexive Candidate Detected", "Fingerprint Timezone Mismatch",
      "Fingerprint Continent Mismatch", "Fingerprint Spoofed", "Location Mismatch",
      "Bot/Automation">>

\* the explanation that belongs to each label
explanations ==
    <<"IP hosted in datacenter", "Hosting provider IP", "Tor network detected",
      "IP identified as VPN server by WhatIsMyIpAddress",
      "IP listed on blacklist by WhatIsMyIpAddress", "Local IP leak detected",
      "Presence of relay ICE candidates indicates possible VPN or proxy usage",
      "Presence of server reflexive ICE candidates indicates NAT traversal",
      "Mismatch between browser fingerprint timezone and IP location timezone",
      "Mismatch between browser fingerprint continent and IP location continent",
      "Browser fingerprint data appears spoofed or inconsistent",
      "Location mismatch detected", "Automated browser detected">>

\* the position of a label in the evaluation order, 0 for a foreign label
rank(label) ==
    IF \E k \in DOMAIN labelOrder : labelOrder[k] = label
    THEN CHOOSE k \in DOMAIN labelOrder : labelOrder[k] = label
    ELSE 0

\* the explanation of a label for a bundle: for "Location Mismatch" the
\* producer's message when there is one
explanationOf(label, r) ==
    IF label = "Location Mismatch" /\ Truthy(r.locationMismatch.message)
    THEN r.locationMismatch.message
    ELSE IF rank(label) = 0 THEN "" ELSE explanations[rank(label)]

\* C18: detectedTypes and riskFactors have the same length, and the risk factor
\* at each index is the explanation of the label at that index (for "Location
\* Mismatch" the producer's message when one is available).
C18_RiskFactorsParallelLabels ==
    verdict.computed =>
        /\ Len(verdict.detectedTypes) = Len(verdict.riskFactors)
        /\ \A i \in DOMAIN verdict.detectedTypes :
              verdict.riskFactors[i] = explanationOf(verdict.detectedTypes[i], results)

\* a verdict of at least four labels, with the location producer's message as
\* the explanation of "Location Mismatch"
C18_Witness ==
    /\ verdict.computed
    /\ Len(verdict.detectedTypes) >= 4
    /\ "WebRTC Relay Candidate Detected" \in labelsOf(verdict)
    /\ \E i \in DOMAIN verdict.detectedTypes :
          /\ verdict.detectedTypes[i] = "Location Mismatch"
          /\ verdict.riskFactors[i] = "Location mismatch"

\* C19: detectedTypes holds no label twice, and its labels stand in the fixed
\* evaluation order: the five IP labels, WebRTC Leak and its sub-labels, the
\* timezone and continent mismatches, the fingerprint suspicion label, Location
\* Mismatch, Bot/Automation.
C19_LabelsUniqueAndOrdered ==
    verdict.computed =>
        /\ \A i \in DOMAIN verdict.detectedTypes : rank(verdict.detectedTypes[i]) > 0
        /\ \A i, j \in DOMAIN verdict.detectedTypes :
              i < j => rank(verdict.detectedTypes[i]) < rank(verdict.detectedTypes[j])

\* a verdict that carries the first and the last label of the order and at
\* least four more between them
C19_Witness ==
    /\ verdict.computed
    /\ Len(verdict.detectedTypes) >= 6
    /\ verdict.detectedTypes[1] = "Datacenter IP"
    /\ verdict.detectedTypes[Len(verdict.detectedTypes)] = "Bot/Automation"
    /\ "Fingerprint Continent Mismatch" \in labelsOf(verdict)

\* the boolean flags of a bundle
booleanFlags ==
    {"isDatacenter", "isHosting", "isTor", "vpnDetected", "blacklisted", "hasLeak",
     "hasMismatch", "isBot"}

\* the sub-record that carries the flag
recordOf(flag) ==
    CASE flag = "hasLeak" -> "webrtcLeak"
      [] flag = "hasMismatch" -> "locationMismatch"
      [] flag = "isBot" -> "botDetection"
      [] OTHER -> "ipAnalysis"

\* the flag is false in the bundle
flagIsFalse(r, flag) == r[recordOf(flag)].present /\ r[recordOf(flag)][flag] = "false"

\* the bundle that differs from r only in that the flag is true
withFlag(r, flag) == [r EXCEPT ![recordOf(flag)][flag] = "true"]

\* C20: of two bundles that differ only in that one boolean flag is false in
\* the first and true in the second, the second has a confidenceScore greater
\* than or equal to that of the first.
C20_FlagNeverLowersScore ==
    verdict.computed =>
        \A flag \in booleanFlags :
            flagIsFalse(results, flag) =>
                calculateOverallResult(withFlag(results, flag)).confidenceScore
                    >= verdict.confidenceScore

\* a bundle with a negative riskScore and a score under the cap, whose score
\* rises when isTor or hasMismatch becomes true
C20_Witness ==
    /\ verdict.computed
    /\ results.ipAnalysis.present /\ NumberOrZero(results.ipAnalysis.riskScore) < 0
    /\ flagIsFalse(results, "isTor") /\ flagIsFalse(results, "hasMismatch")
    /\ calculateOverallResult(withFlag(results, "isTor")).confidenceScore
           > verdict.confidenceScore
    /\ calculateOverallResult(withFlag(results, "hasMismatch")).confidenceScore
           > verdict.confidenceScore

-----------------------------------------------------------------------------
(* LocationMismatch.checkLocationMismatch, exercised on its own *)

\* the detection run has not been started
engineIdle ==
    /\ results = NoResults
    /\ verdict = NoVerdict
    /\ pc = "idle"
    /\ svc = [i \in Services |-> IdleSvc]
    /\ ipPhase = "idle"
    /\ merged = AbsentIp
    /\ fallback = "idle"
    /\ webrtc = Idle
    /\ fingerprint = Idle
    /\ location = Idle
    /\ bot = Idle
    /\ logState = "idle"
    /\ outcome = NoOutcome

\* calculateDistance in km, on both sides of the two thresholds
checkDistances == {0, 120, 300, 301, 640, 1000, 1001, 3936}

\* getCountryFromLatLng(...) || 'Unknown', and ipResult.country
geoCountries == {"Unknown", "United States", "Canada"}

\* the answers of getGPSLocation and getIPLocation, the distance between the two
\* positions, the two countries; threw: an awaited call rejected
locationLookups ==
    [gpsSuccess : BOOLEAN, ipSuccess : BOOLEAN, distance : checkDistances,
     gpsCountry : geoCountries, ipCountry : geoCountries, threw : BOOLEAN]

LocationInit ==
    /\ engineIdle
    /\ locationCheck \in [lookups : locationLookups, result : {AbsentLocation}]
    /\ leak = Idle
    /\ botDetector = Idle
    /\ ipClassifier = Idle
    /\ behavior = Idle

\* one call of checkLocationMismatch(); gpsCountry and ipCountry are computed
\* (lines 36-37) and take no part in the result's hasMismatch or matchLevel
CheckLocationMismatch ==
    /\ locationCheck # Idle
    /\ ~locationCheck.result.present
    /\ locationCheck' =
         [locationCheck EXCEPT !.result =
             checkLocationMismatchResult(locationCheck.lookups.gpsSuccess,
                                         locationCheck.lookups.ipSuccess,
                                         locationCheck.lookups.distance,
                                         locationCheck.lookups.threw)]
    /\ UNCHANGED engineVars
    /\ UNCHANGED <<leak, botDetector, ipClassifier, behavior>>

LocationNext == CheckLocationMismatch

LocationSpec == LocationInit /\ [][LocationNext]_vars

-----------------------------------------------------------------------------
(* Properties of checkLocationMismatch, under LocationSpec *)

locationChecked == locationCheck # Idle /\ locationCheck.result.present

\* C21: in every result of checkLocationMismatch, on the success path and on
\* every failure path, hasMismatch is true if and only if matchLevel is
\* "mismatch"
C21_HasMismatchIffMismatchLevel ==
    locationChecked =>
        (locationCheck.result.hasMismatch = "true"
            <=> locationCheck.result.matchLevel = "mismatch")

bothLookupsSucceeded ==
    /\ locationChecked
    /\ ~locationCheck.lookups.threw
    /\ locationCheck.lookups.gpsSuccess
    /\ locationCheck.lookups.ipSuccess

countriesKnownAndDifferent ==
    /\ locationCheck.lookups.gpsCountry # "Unknown"
    /\ locationCheck.lookups.ipCountry # "Unknown"
    /\ locationCheck.lookups.gpsCountry # locationCheck.lookups.ipCountry

\* C22: when both locations are available and the GPS country and the IP
\* country are both known and differ, hasMismatch is true, whatever the distance
C22_CountryMismatchIsMismatch ==
    (bothLookupsSucceeded /\ countriesKnownAndDifferent)
        => locationCheck.result.hasMismatch = "true"

C24_GpsFailureMessage ==
    (/\ locationChecked
     /\ ~locationCheck.lookups.threw
     /\ ~locationCheck.lookups.gpsSuccess
     /\ locationCheck.lookups.ipSuccess)
        => /\ locationCheck.result.hasMismatch = "false"
           /\ locationCheck.result.message = "Could not determine location"

-----------------------------------------------------------------------------
(* The two reference tables, read through calculateOverallResult *)

\* the country codes both tables hold
tableCodes == DOMAIN countryTimezoneMap \cap DOMAIN countryContinentMapping

\* a client in the country c: the IP service reports the country code, and the
\* country's representative zone or no zone; the browser clock is set to the
\* representative zone
clientIn(c, ipTimezone) ==
    [ipAnalysis |-> [present |-> TRUE, publicIp |-> "203.0.113.7", country |-> <<c>>,
                     timezone |-> ipTimezone, isDatacenter |-> "false",
                     isHosting |-> "false", isTor |-> "false", vpnDetected |-> "false",
                     blacklisted |-> "false", riskScore |-> Num(0)],
     webrtcLeak |-> NoLeak,
     fingerprint |-> [present |-> TRUE, timezone |-> getTimezoneFromCountryCode(c),
                      suspicionScore |-> Num(0)],
     locationMismatch |-> AbsentLocation,
     botDetection |-> AbsentBot]

TableBundles ==
    {clientIn(c, UnknownText) : c \in tableCodes}
        \cup {clientIn(c, getTimezoneFromCountryCode(c)) : c \in tableCodes}

TableInit ==
    /\ results \in TableBundles
    /\ verdict = NoVerdict
    /\ pc = "pure"
    /\ svc = [i \in Services |-> IdleSvc]
    /\ ipPhase = "idle"
    /\ merged = AbsentIp
    /\ fallback = "idle"
    /\ webrtc = Idle
    /\ fingerprint = Idle
    /\ location = Idle
    /\ bot = Idle
    /\ logState = "idle"
    /\ outcome = NoOutcome
    /\ locationCheck = Idle
    /\ leak = Idle
    /\ botDetector = Idle
    /\ ipClassifier = Idle
    /\ behavior = Idle

TableSpec == TableInit /\ [][AggNext]_vars

\* C25: for every country code of both tables the continent of the country's
\* representative timezone is unknown or is the country's continent, and a
\* client whose browser timezone is that zone never receives "Fingerprint
\* Continent Mismatch"
C25_TablesAgree ==
    LET c == extractCountryCode(results.ipAnalysis.country)
    IN  /\ timezoneToContinent(getTimezoneFromCountryCode(c))
               \in {"null", countryToContinent(c)}
        /\ verdict.computed => "Fingerprint Continent Mismatch" \notin labelsOf(verdict)

-----------------------------------------------------------------------------
(* WebRTCLeak.detectLeak: the peer connections and their callbacks *)

\* this.stunServers, by index
stunServers == 1 .. 5

totalChecks == Cardinality(stunServers)

\* a server before forEach reaches it
NoConnection ==
    [st |-> "none", iceGatheringState |-> "new", offer |-> "none", timer |-> "unset",
     counted |-> 0]

\* new RTCPeerConnection threw: the catch of line 104 ran handleComplete, and
\* neither the offer nor the 3-second timer exists
FailedConnection ==
    [st |-> "failed", iceGatheringState |-> "new", offer |-> "none", timer |-> "unset",
     counted |-> 1]

\* the connection after lines 59-102: the offer is under way, the timer is set
OpenConnection ==
    [st |-> "open", iceGatheringState |-> "new", offer |-> "pending", timer |-> "armed",
     counted |-> 0]

LeakInit ==
    /\ engineIdle
    /\ leak = [pcs |-> [s \in stunServers |-> NoConnection], completedChecks |-> 0,
               fallbackTimer |-> "unset", resolved |-> "no", unfinished |-> {}]
    /\ locationCheck = Idle
    /\ botDetector = Idle
    /\ ipClassifier = Idle
    /\ behavior = Idle

detecting == leak # Idle /\ leak.fallbackTimer # "unset"

\* the servers whose connection is still open: their check has neither
\* finished, failed nor timed out
openConnections(pcs) == {s \in stunServers : pcs[s].st = "open"}

\* handleComplete() called for the server s, whose connection has become pcOfS:
\* completedChecks++, and at completedChecks >= totalChecks the result is made
\* of the local addresses gathered so far
handleComplete(l, s, pcOfS) ==
    LET pcs == [l.pcs EXCEPT ![s] = [pcOfS EXCEPT !.counted = @ + 1]]
        completedChecks == l.completedChecks + 1
        produces == completedChecks >= totalChecks /\ l.resolved = "no"
    IN  [l EXCEPT !.pcs = pcs,
                  !.completedChecks = completedChecks,
                  !.resolved = IF produces THEN "checks" ELSE @,
                  !.unfinished = IF produces THEN openConnections(pcs) ELSE @]

\* the synchronous body of the promise executor (lines 18-133): either
\* RTCPeerConnection is missing, or forEach builds the five connections, each
\* constructor throwing or not, and the fallback timer is set
DetectLeak ==
    /\ leak # Idle
    /\ leak.fallbackTimer = "unset"
    /\ leak.resolved = "no"
    /\ \/ leak' = [leak EXCEPT !.resolved = "unsupported"]
       \/ \E thrown \in SUBSET stunServers :
            leak' = [pcs |-> [s \in stunServers |->
                                IF s \in thrown THEN FailedConnection ELSE OpenConnection],
                     completedChecks |-> Cardinality(thrown),
                     fallbackTimer |-> "armed",
                     resolved |-> IF Cardinality(thrown) >= totalChecks THEN "checks" ELSE "no",
                     unfinished |-> {}]
    /\ UNCHANGED engineVars
    /\ UNCHANGED <<locationCheck, botDetector, ipClassifier, behavior>>

\* createOffer().then(setLocalDescription) fulfils: gathering starts
OfferFulfils(s) ==
    /\ detecting
    /\ leak.pcs[s].st = "open"
    /\ leak.pcs[s].offer = "pending"
    /\ leak' = [leak EXCEPT !.pcs[s].offer = "set",
                            !.pcs[s].iceGatheringState = "gathering"]
    /\ UNCHANGED engineVars
    /\ UNCHANGED <<locationCheck, botDetector, ipClassifier, behavior>>

\* the .catch of lines 91-94: pc.close(); handleComplete().  The chain also
\* rejects when the timer closed the connection while the offer was pending.
OfferRejects(s) ==
    /\ detecting
    /\ leak.pcs[s].st \in {"open", "closed"}
    /\ leak.pcs[s].offer = "pending"
    /\ leak' = handleComplete(leak, s, [leak.pcs[s] EXCEPT !.offer = "rejected",
                                                             !.st = "closed"])
    /\ UNCHANGED engineVars
    /\ UNCHANGED <<locationCheck, botDetector, ipClassifier, behavior>>

\* onicegatheringstatechange with 'complete' (lines 82-87)
GatheringCompletes(s) ==
    /\ detecting
    /\ leak.pcs[s].st = "open"
    /\ leak.pcs[s].iceGatheringState = "gathering"
    /\ leak' = handleComplete(leak, s, [leak.pcs[s] EXCEPT !.iceGatheringState = "complete",
                                                             !.st = "closed"])
    /\ UNCHANGED engineVars
    /\ UNCHANGED <<locationCheck, botDetector, ipClassifier, behavior>>

\* the 3-second timer of lines 97-102; timers of equal delay run in the order
\* they were set
ServerTimeout(s) ==
    /\ detecting
    /\ leak.pcs[s].timer = "armed"
    /\ \A r \in stunServers : r < s => leak.pcs[r].timer # "armed"
    /\ leak' = IF leak.pcs[s].iceGatheringState # "complete"
               THEN handleComplete(leak, s, [leak.pcs[s] EXCEPT !.timer = "fired",
                                                                 !.st = "closed"])
               ELSE [leak EXCEPT !.pcs[s].timer = "fired"]
    /\ UNCHANGED engineVars
    /\ UNCHANGED <<locationCheck, botDetector, ipClassifier, behavior>>

\* the 5-second timer of lines 110-133, after every 3-second timer
FallbackTimeout ==
    /\ detecting
    /\ leak.fallbackTimer = "armed"
    /\ \A s \in stunServers : leak.pcs[s].timer # "armed"
    /\ leak' = [leak EXCEPT !.fallbackTimer = "fired",
                            !.resolved = IF leak.completedChecks < totalChecks /\ @ = "no"
                                         THEN "fallback" ELSE @]
    /\ UNCHANGED engineVars
    /\ UNCHANGED <<locationCheck, botDetector, ipClassifier, behavior>>

LeakNext ==
    \/ DetectLeak
    \/ \E s \in stunServers : OfferFulfils(s)
    \/ \E s \in stunServers : OfferRejects(s)
    \/ \E s \in stunServers : GatheringCompletes(s)
    \/ \E s \in stunServers : ServerTimeout(s)
    \/ FallbackTimeout

LeakSpec == LeakInit /\ [][LeakNext]_vars

\* C26: under every interleaving of the callbacks each server's check is
\* counted at most once, completedChecks never exceeds the number of servers,
\* and the checks produce the result only when no connection is still open
C26_EachCheckCountedOnce ==
    leak # Idle =>
        /\ \A s \in stunServers : leak.pcs[s].counted <= 1
        /\ leak.completedChecks <= totalChecks
        /\ leak.resolved = "checks" => leak.unfinished = {}

-----------------------------------------------------------------------------
(* BotDetector.analyzeBehavior: the request tracker *)

\* what getClientIp(req) may return: the text of a request header, which the
\* client chooses
clientKeys == {"198.51.100.7", "203.0.113.9", "__proto__"}

\* Date.now() when the server starts, in ms
serverStart == 1000000

\* ms between two requests reaching analyzeBehavior
elapsedTimes == {0, 999, 1000, 300001}

\* 5 * 60 * 1000
fiveMinutes == 300000

MaxRequests == 3

\* this.requestTracker[key] of a plain object: an own property, else what
\* Object.prototype provides ('__proto__' reads as the prototype object), else
\* undefined
prototypeObject == [t |-> "object", n |-> 0]

getProperty(tracker, key) ==
    IF key = "__proto__" THEN prototypeObject
    ELSE IF key \in DOMAIN tracker THEN Num(tracker[key])
    ELSE UndefinedNum

\* if (x) of a number, undefined or an object
truthyValue(x) == x.t = "object" \/ (x.t = "number" /\ x.n # 0)

\* this.requestTracker[key] = timestamp: assigning a number to '__proto__'
\* leaves a plain object as it is
setProperty(tracker, key, timestamp) ==
    IF key = "__proto__" THEN tracker
    ELSE [k \in DOMAIN tracker \cup {key} |-> IF k = key THEN timestamp ELSE tracker[k]]

\* timestamp - lastRequest < 1000; the difference with an object is NaN, and
\* NaN < 1000 is false
tooFast(timestamp, lastRequest) ==
    IF lastRequest.t = "number" THEN timestamp - lastRequest.n < 1000 ELSE FALSE

\* lines 195-202: the entries a cleaning pass deletes
staleKeys(tracker, timestamp) ==
    {k \in DOMAIN tracker : tracker[k] < timestamp - fiveMinutes}

\* an empty plain object
emptyObject == [k \in {} |-> 0]

NoAnalysis ==
    [key |-> "none", timestamp |-> 0, previous |-> 0, tooFastRequests |-> FALSE,
     evicted |-> {}]

\* requestTracker is not set by the constructor (created: FALSE).  lastSeen and
\* last record, for the properties, when each client key was last served (0:
\* never) and what the last call did.
BotInit ==
    /\ engineIdle
    /\ botDetector = [created |-> FALSE, requestTracker |-> emptyObject, now |-> serverStart,
                      served |-> 0, lastSeen |-> [k \in clientKeys |-> 0],
                      last |-> NoAnalysis]
    /\ locationCheck = Idle
    /\ leak = Idle
    /\ ipClassifier = Idle
    /\ behavior = Idle

\* analyzeBehavior(req) for a request of the client key, elapsed ms after the
\* previous one; cleans: Math.random() < 0.1
AnalyzeBehavior(key, elapsed, cleans) ==
    /\ botDetector # Idle
    /\ botDetector.served < MaxRequests
    /\ LET timestamp == botDetector.now + elapsed
           lastRequest == getProperty(botDetector.requestTracker, key)
           tooFastRequests == IF botDetector.created /\ truthyValue(lastRequest)
                              THEN tooFast(timestamp, lastRequest)
                              ELSE FALSE
           written == setProperty(botDetector.requestTracker, key, timestamp)
           stale == IF cleans THEN staleKeys(written, timestamp) ELSE {}
       IN  botDetector' =
             [created |-> TRUE,
              requestTracker |-> [k \in DOMAIN written \ stale |-> written[k]],
              now |-> timestamp,
              served |-> botDetector.served + 1,
              lastSeen |-> [botDetector.lastSeen EXCEPT ![key] = timestamp],
              last |-> [key |-> key, timestamp |-> timestamp,
                        previous |-> botDetector.lastSeen[key],
                        tooFastRequests |-> tooFastRequests,
                        evicted |-> {[key |-> k, time |-> written[k]] : k \in stale}]]
    /\ UNCHANGED engineVars
    /\ UNCHANGED <<locationCheck, leak, ipClassifier, behavior>>

BotNext ==
    \E key \in clientKeys, elapsed \in elapsedTimes, cleans \in BOOLEAN :
        AnalyzeBehavior(key, elapsed, cleans)

BotSpec == BotInit /\ [][BotNext]_vars

\* C27: analyzeBehavior reports tooFastRequests exactly when the previous
\* request of the same client key arrived less than 1000 ms before; a first
\* request is never flagged; afterwards the tracker holds the request's
\* timestamp under the key; a cleaning pass removes only entries older than
\* 5 minutes
C27_TooFastExactly ==
    (botDetector # Idle /\ botDetector.served > 0) =>
        LET a == botDetector.last
        IN  /\ a.tooFastRequests
                 <=> (a.previous # 0 /\ a.timestamp - a.previous < 1000)
            /\ a.previous = 0 => ~a.tooFastRequests
            /\ getProperty(botDetector.requestTracker, a.key) = Num(a.timestamp)
            /\ \A e \in a.evicted : a.timestamp - e.time > fiveMinutes

-----------------------------------------------------------------------------
(* IpClassifier.classifyIp *)

\* ipToNumber: the four octets folded by (acc << 8) + octet.  The addresses
\* used here start below 128, where the 32-bit result is the plain sum.
ipToNumber(ip) == ((ip[1] * 256 + ip[2]) * 256 + ip[3]) * 256 + ip[4]

\* entries that data/hosting-ips.json may list: start, end and the provider
\* name, a sequence of words; <<>> is a missing provider
knownRanges ==
    {[start |-> <<3, 5, 140, 0>>, end |-> <<3, 5, 143, 255>>, provider |-> <<"Amazon", "AWS">>],
     [start |-> <<45, 83, 88, 0>>, end |-> <<45, 83, 91, 255>>, provider |-> <<"NordVPN">>],
     [start |-> <<64, 90, 48, 0>>, end |-> <<64, 90, 51, 255>>, provider |-> <<"HostGator">>],
     [start |-> <<66, 29, 128, 0>>, end |-> <<66, 29, 128, 255>>, provider |-> <<>>]}

\* the addresses handed to classifyIp; <<>> is a missing address
classifiedIps ==
    {<<3, 5, 141, 9>>, <<3, 5, 144, 0>>, <<45, 83, 90, 1>>, <<64, 90, 50, 3>>,
     <<66, 29, 128, 77>>, <<73, 162, 4, 5>>, <<>>}

datacenterKeywords ==
    {"amazon", "aws", "ec2", "google", "gcp", "microsoft", "azure", "digitalocean",
     "linode", "vultr", "ovh", "hetzner", "scaleway", "cloudflare", "datacamp",
     "serverspace", "rackspace"}

proxyProviders ==
    {"nordvpn", "expressvpn", "surfshark", "cyberghost", "purevpn", "hotspotshield",
     "tunnelbear", "windscribe", "protonvpn", "ipvanish"}

toLowerCase(word) ==
    CASE word = "Amazon" -> "amazon"
      [] word = "AWS" -> "aws"
      [] word = "NordVPN" -> "nordvpn"
      [] word = "HostGator" -> "hostgator"
      [] OTHER -> word

\* (range.provider?.toLowerCase() || '') includes one of the keywords: one of
\* the provider's words is a keyword
providerIncludes(provider, keywords) ==
    \E i \in DOMAIN provider : toLowerCase(provider[i]) \in keywords

\* loadHostingRanges: start and end as numbers
loadHostingRanges(ranges) ==
    {[start |-> ipToNumber(r.start), end |-> ipToNumber(r.end), provider |-> r.provider] :
        r \in ranges}

inRange(ip, range) == ipToNumber(ip) >= range.start /\ ipToNumber(ip) <= range.end

isHostingIp(hostingRanges, ip) == \E range \in hostingRanges : inRange(ip, range)

\* lines 142-155: the parameter ip is not read
isDatacenterIp(hostingRanges, ip) ==
    \E range \in hostingRanges : providerIncludes(range.provider, datacenterKeywords)

\* lines 157-168: the parameter ip is not read
isKnownProxy(hostingRanges, ip) ==
    \E range \in hostingRanges : providerIncludes(range.provider, proxyProviders)

calculateRiskLevel(analysis) ==
    LET riskScore == (IF analysis.isTor THEN 4 ELSE 0) + (IF analysis.isProxy THEN 3 ELSE 0)
                     + (IF analysis.isDatacenter THEN 2 ELSE 0)
                     + (IF analysis.isHosting THEN 1 ELSE 0)
    IN  IF riskScore >= 4 THEN "critical"
        ELSE IF riskScore >= 3 THEN "high"
        ELSE IF riskScore >= 2 THEN "medium"
        ELSE IF riskScore >= 1 THEN "low"
        ELSE "minimal"

\* the catch of lines 114-127: ip.split throws on a missing address
classificationFailed ==
    [isDatacenter |-> FALSE, isHosting |-> FALSE, isTor |-> FALSE, isProxy |-> FALSE,
     isResidential |-> TRUE, riskLevel |-> "unknown"]

\* classifyIp(ip); isTor is the answer of the Tor exit list
classifyIp(hostingRanges, ip, isTor) ==
    IF ip = <<>> THEN classificationFailed
    ELSE LET flags == [isDatacenter |-> isDatacenterIp(hostingRanges, ip),
                       isHosting |-> isHostingIp(hostingRanges, ip),
                       isTor |-> isTor,
                       isProxy |-> isKnownProxy(hostingRanges, ip)]
         IN  [isDatacenter |-> flags.isDatacenter, isHosting |-> flags.isHosting,
              isTor |-> flags.isTor, isProxy |-> flags.isProxy,
              isResidential |-> ~flags.isDatacenter /\ ~flags.isHosting /\ ~flags.isProxy,
              riskLevel |-> calculateRiskLevel(flags)]

\* the constructor loaded some list of ranges; nothing is classified yet
ClassifierInit ==
    /\ engineIdle
    /\ \E ranges \in SUBSET knownRanges :
         ipClassifier = [hostingRanges |-> loadHostingRanges(ranges), classified |-> FALSE,
                         ip |-> <<>>, analysis |-> classificationFailed]
    /\ locationCheck = Idle
    /\ leak = Idle
    /\ botDetector = Idle
    /\ behavior = Idle

ClassifyIp(ip, isTor) ==
    /\ ipClassifier # Idle
    /\ ~ipClassifier.classified
    /\ ipClassifier' = [ipClassifier EXCEPT
                            !.classified = TRUE,
                            !.ip = ip,
                            !.analysis = classifyIp(ipClassifier.hostingRanges, ip, isTor)]
    /\ UNCHANGED engineVars
    /\ UNCHANGED <<locationCheck, leak, botDetector, behavior>>

ClassifierNext == \E ip \in classifiedIps, isTor \in BOOLEAN : ClassifyIp(ip, isTor)

ClassifierSpec == ClassifierInit /\ [][ClassifierNext]_vars

\* C28: classifyIp(ip) reports isDatacenter only when ip lies in a listed range
\* of a datacenter provider, isProxy only when it lies in a range of a VPN or
\* proxy provider, and an address outside every listed range is neither
\* datacenter, hosting nor proxy
C28_ClassificationFollowsRanges ==
    (ipClassifier # Idle /\ ipClassifier.classified /\ ipClassifier.ip # <<>>) =>
        LET ip == ipClassifier.ip
            a == ipClassifier.analysis
            ranges == ipClassifier.hostingRanges
        IN  /\ a.isDatacenter =>
                 \E r \in ranges : inRange(ip, r) /\ providerIncludes(r.provider, datacenterKeywords)
            /\ a.isProxy =>
                 \E r \in ranges : inRange(ip, r) /\ providerIncludes(r.provider, proxyProviders)
            /\ (\A r \in ranges : ~inRange(ip, r))
                 => (~a.isDatacenter /\ ~a.isHosting /\ ~a.isProxy)

-----------------------------------------------------------------------------
(* BehaviorAnalysis: tracking, the event buffers, the suspicion score *)

\* the buffer limits of the three handlers
maxMouseMovements == 100
maxKeystrokes == 50
maxScrollEvents == 50

\* events recorded in one tracking session that fills the buffers
MaxEvents == 102

\* events recorded, and startTracking/stopTracking calls made, when tracking
\* is switched on and off
MaxTrackedEvents == 3
MaxCalls == 4

\* new BehaviorAnalysis().  An event is recorded as its arrival number within
\* the tracking session (arrivals counts the events each handler recorded).
\* registered is the number of listeners attached to document and window,
\* eventListeners the number of stored cleanup functions; recorded counts the
\* events the handlers took, calls the startTracking/stopTracking calls, and
\* lastCall names the last call or event.
NewBehaviorAnalysis ==
    [isTracking |-> FALSE, mouseMovements |-> <<>>, keystrokes |-> <<>>,
     scrollEvents |-> <<>>, focusEvents |-> <<>>, eventListeners |-> 0, registered |-> 0,
     arrivals |-> [mouse |-> 0, key |-> 0, wheel |-> 0],
     recorded |-> 0, calls |-> 0, lastCall |-> "none"]

\* buffer.push(event); if (buffer.length > limit) buffer.shift()
pushBounded(buffer, event, limit) ==
    IF Len(Append(buffer, event)) > limit THEN Tail(Append(buffer, event))
    ELSE Append(buffer, event)

\* the mouse handler without the shift, to compare mouseHandler against
mouseHandlerUnbounded(b) ==
    [b EXCEPT !.arrivals.mouse = @ + 1,
              !.mouseMovements = Append(@, b.arrivals.mouse + 1)]

mouseHandler(b) ==
    [b EXCEPT !.arrivals.mouse = @ + 1,
              !.mouseMovements = pushBounded(@, b.arrivals.mouse + 1, maxMouseMovements)]

keyHandler(b) ==
    [b EXCEPT !.arrivals.key = @ + 1,
              !.keystrokes = pushBounded(@, b.arrivals.key + 1, maxKeystrokes)]

scrollHandler(b) ==
    [b EXCEPT !.arrivals.wheel = @ + 1,
              !.scrollEvents = pushBounded(@, b.arrivals.wheel + 1, maxScrollEvents)]

focusHandler(b) == [b EXCEPT !.focusEvents = Append(@, "focus")]

blurHandler(b) == [b EXCEPT !.focusEvents = Append(@, "blur")]

\* startTracking without the isTracking test, to compare startTracking against
startTrackingUnguarded(b) ==
    [b EXCEPT !.isTracking = TRUE, !.mouseMovements = <<>>, !.keystrokes = <<>>,
              !.scrollEvents = <<>>, !.focusEvents = <<>>,
              !.arrivals = [mouse |-> 0, key |-> 0, wheel |-> 0],
              !.registered = @ + 5, !.eventListeners = @ + 5]

startTracking(b) ==
    IF b.isTracking THEN b
    ELSE [b EXCEPT !.isTracking = TRUE, !.mouseMovements = <<>>, !.keystrokes = <<>>,
                   !.scrollEvents = <<>>, !.focusEvents = <<>>,
                   !.arrivals = [mouse |-> 0, key |-> 0, wheel |-> 0],
                   !.registered = @ + 5, !.eventListeners = @ + 5]

\* every cleanup removes its listener; the array is emptied
stopTracking(b) ==
    IF ~b.isTracking THEN b
    ELSE [b EXCEPT !.isTracking = FALSE, !.registered = @ - b.eventListeners,
                   !.eventListeners = 0]

\* What the floating-point analyses find in the recorded coordinates and
\* timestamps: averageSpeed > 2 or < 0.1, patternScore > 0.8, rhythmScore > 0.9,
\* averageInterval < 50, and Date.now() - startTime > 5000.
observations ==
    [speedOutOfRange : BOOLEAN, tooRegularPattern : BOOLEAN, tooRegularRhythm : BOOLEAN,
     tooFastTyping : BOOLEAN, sessionOver5s : BOOLEAN]

\* analyzeMouseActivity: below two movements everything is 0; detectPatterns
\* is 0 below eleven movements
analyzeMouseActivity(b, obs) ==
    IF Len(b.mouseMovements) < 2
    THEN [totalMovements |-> 0, speedOutOfRange |-> TRUE, tooRegularPattern |-> FALSE]
    ELSE [totalMovements |-> Len(b.mouseMovements),
          speedOutOfRange |-> obs.speedOutOfRange,
          tooRegularPattern |-> Len(b.mouseMovements) >= 11 /\ obs.tooRegularPattern]

\* analyzeKeyboardActivity: below two keystrokes averageInterval and
\* rhythmScore are 0
analyzeKeyboardActivity(b, obs) ==
    IF Len(b.keystrokes) < 2
    THEN [tooRegularRhythm |-> FALSE, tooFastTyping |-> TRUE]
    ELSE [tooRegularRhythm |-> obs.tooRegularRhythm, tooFastTyping |-> obs.tooFastTyping]

suspicionPoints(b, obs) ==
    LET mouseActivity == analyzeMouseActivity(b, obs)
        keyboardActivity == analyzeKeyboardActivity(b, obs)
    IN  (IF mouseActivity.totalMovements = 0 THEN 30 ELSE 0)
        + (IF mouseActivity.tooRegularPattern THEN 20 ELSE 0)
        + (IF mouseActivity.speedOutOfRange THEN 15 ELSE 0)
        + (IF keyboardActivity.tooRegularRhythm THEN 20 ELSE 0)
        + (IF keyboardActivity.tooFastTyping THEN 15 ELSE 0)
        + (IF obs.sessionOver5s /\ mouseActivity.totalMovements < 5 THEN 25 ELSE 0)

\* Math.min(100, score)
calculateSuspicionScore(b, obs) == Min(100, suspicionPoints(b, obs))

\* the browser runs a handler when its listener is attached
dispatch(b, handled) ==
    IF b.registered > 0
    THEN [handled EXCEPT !.recorded = @ + 1, !.lastCall = "event"]
    ELSE [b EXCEPT !.lastCall = "event"]

BehaviorInit ==
    /\ engineIdle
    /\ behavior = NewBehaviorAnalysis
    /\ locationCheck = Idle
    /\ leak = Idle
    /\ botDetector = Idle
    /\ ipClassifier = Idle

StartTracking(maxCalls) ==
    /\ behavior # Idle
    /\ behavior.calls < maxCalls
    /\ behavior' = [startTracking(behavior) EXCEPT !.calls = @ + 1,
                                                   !.lastCall = "startTracking"]
    /\ UNCHANGED engineVars
    /\ UNCHANGED <<locationCheck, leak, botDetector, ipClassifier>>

StopTracking(maxCalls) ==
    /\ behavior # Idle
    /\ behavior.calls < maxCalls
    /\ behavior' = [stopTracking(behavior) EXCEPT !.calls = @ + 1,
                                                  !.lastCall = "stopTracking"]
    /\ UNCHANGED engineVars
    /\ UNCHANGED <<locationCheck, leak, botDetector, ipClassifier>>

MouseMove(maxEvents) ==
    /\ behavior # Idle
    /\ behavior.recorded < maxEvents
    /\ behavior' = dispatch(behavior, mouseHandler(behavior))
    /\ UNCHANGED engineVars
    /\ UNCHANGED <<locationCheck, leak, botDetector, ipClassifier>>

KeyDown(maxEvents) ==
    /\ behavior # Idle
    /\ behavior.recorded < maxEvents
    /\ behavior' = dispatch(behavior, keyHandler(behavior))
    /\ UNCHANGED engineVars
    /\ UNCHANGED <<locationCheck, leak, botDetector, ipClassifier>>

Wheel(maxEvents) ==
    /\ behavior # Idle
    /\ behavior.recorded < maxEvents
    /\ behavior' = dispatch(behavior, scrollHandler(behavior))
    /\ UNCHANGED engineVars
    /\ UNCHANGED <<locationCheck, leak, botDetector, ipClassifier>>

Focus(maxEvents) ==
    /\ behavior # Idle
    /\ behavior.recorded < maxEvents
    /\ behavior' = dispatch(behavior, focusHandler(behavior))
    /\ UNCHANGED engineVars
    /\ UNCHANGED <<locationCheck, leak, botDetector, ipClassifier>>

Blur(maxEvents) ==
    /\ behavior # Idle
    /\ behavior.recorded < maxEvents
    /\ behavior' = dispatch(behavior, blurHandler(behavior))
    /\ UNCHANGED engineVars
    /\ UNCHANGED <<locationCheck, leak, botDetector, ipClassifier>>

\* one tracking session that receives mouse, key and wheel events
BufferNext ==
    \/ StartTracking(1)
    \/ MouseMove(MaxEvents)
    \/ KeyDown(MaxEvents)
    \/ Wheel(MaxEvents)

BufferSpec == BehaviorInit /\ [][BufferNext]_vars

\* tracking switched on and off, with events in between
TrackingNext ==
    \/ StartTracking(MaxCalls)
    \/ StopTracking(MaxCalls)
    \/ MouseMove(MaxTrackedEvents)
    \/ KeyDown(MaxTrackedEvents)
    \/ Wheel(MaxTrackedEvents)
    \/ Focus(MaxTrackedEvents)
    \/ Blur(MaxTrackedEvents)

TrackingSpec == BehaviorInit /\ [][TrackingNext]_vars

-----------------------------------------------------------------------------
(* Properties of BehaviorAnalysis, under BufferSpec and TrackingSpec *)

\* the last min(n, limit) of n arrivals, in arrival order
mostRecent(n, limit) == [i \in 1 .. Min(n, limit) |-> n - Min(n, limit) + i]

\* C29: after any sequence of mouse-move, key-down and wheel events delivered
\* while tracking, mouseMovements holds at most 100 entries, keystrokes and
\* scrollEvents at most 50, each buffer holds the most recent events in arrival
\* order, and analyzeBehavior returns an overallSuspicionScore in [0,100]
C29_BuffersBoundedAndRecent ==
    (behavior # Idle /\ behavior.isTracking) =>
        /\ Len(behavior.mouseMovements) <= 100
        /\ Len(behavior.keystrokes) <= 50
        /\ Len(behavior.scrollEvents) <= 50
        /\ behavior.mouseMovements = mostRecent(behavior.arrivals.mouse, 100)
        /\ behavior.keystrokes = mostRecent(behavior.arrivals.key, 50)
        /\ behavior.scrollEvents = mostRecent(behavior.arrivals.wheel, 50)
        /\ \A obs \in observations : calculateSuspicionScore(behavior, obs) \in 0 .. 100

\* the 101st mouse movement arrived and the first was dropped
C29_Witness ==
    /\ behavior # Idle
    /\ behavior.isTracking
    /\ behavior.arrivals.mouse = 101
    /\ Len(behavior.mouseMovements) = 100
    /\ behavior.mouseMovements[1] = 2
    /\ behavior.mouseMovements[100] = 101

buffersOf(b) == <<b.mouseMovements, b.keystrokes, b.scrollEvents, b.focusEvents>>

startCalled == behavior'.calls = behavior.calls + 1 /\ behavior'.lastCall = "startTracking"
stopCalled == behavior'.calls = behavior.calls + 1 /\ behavior'.lastCall = "stopTracking"
eventArrived == behavior'.lastCall = "event" /\ behavior'.calls = behavior.calls

\* the five listeners are attached, and their five cleanups stored, exactly
\* while isTracking
listenersFollowTracking ==
    behavior # Idle =>
        /\ behavior.eventListeners = (IF behavior.isTracking THEN 5 ELSE 0)
        /\ behavior.registered = (IF behavior.isTracking THEN 5 ELSE 0)

\* what one step may do: a startTracking while tracking registers nothing and
\* clears no buffer; a stopTracking while not tracking does nothing; an event
\* while not tracking changes no buffer; a startTracking while not tracking
\* begins with empty buffers
trackingStep ==
    /\ (startCalled /\ behavior.isTracking) =>
          /\ behavior'.isTracking
          /\ behavior'.eventListeners = behavior.eventListeners
          /\ behavior'.registered = behavior.registered
          /\ buffersOf(behavior') = buffersOf(behavior)
    /\ (stopCalled /\ ~behavior.isTracking) =>
          /\ ~behavior'.isTracking
          /\ behavior'.eventListeners = behavior.eventListeners
          /\ behavior'.registered = behavior.registered
          /\ buffersOf(behavior') = buffersOf(behavior)
    /\ (eventArrived /\ ~behavior.isTracking) => buffersOf(behavior') = buffersOf(behavior)
    /\ (startCalled /\ ~behavior.isTracking) =>
          /\ behavior'.isTracking
          /\ buffersOf(behavior') = <<(<<>>), <<>>, <<>>, <<>>>>

\* C30: for every sequence of startTracking and stopTracking calls the five
\* listeners are registered exactly when isTracking is true (5 cleanup entries
\* while tracking, 0 otherwise); a startTracking while tracking registers
\* nothing and clears no buffer, a stopTracking while not tracking does nothing,
\* events after stopTracking change no buffer, and a startTracking after a stop
\* begins with empty buffers
C30_ListenersExactlyWhileTracking == [](listenersFollowTracking) /\ [][trackingStep]_vars

\* startTracking was called while tracking, after an event had been recorded:
\* the buffer was kept and the listeners are still five
C30_Witness ==
    /\ behavior # Idle
    /\ behavior.lastCall = "startTracking"
    /\ behavior.calls >= 2
    /\ behavior.isTracking
    /\ behavior.mouseMovements # <<>>
    /\ behavior.eventListeners = 5

=============================================================================
